---- MODULE Spec2Model ----
(***************************************************************************)
(* Phone-linked OAuth credential broker of gmail-mcp-server.               *)
(*                                                                         *)
(* The state is the PostgreSQL store of src/src/database.py (tables users, *)
(* oauth_tokens and auth_tokens), the wall clock, the OAuth provider's     *)
(* token mint, and the position of every request handler that is running.  *)
(* Strings are sequences of one-character strings; an Optional value is    *)
(* the empty sequence (None) or, for a record, a one-element sequence.     *)
(* Time is a natural number; one unit is the granularity of the clock.     *)
(* Columns that no handler reads back (users.email, users.last_login,      *)
(* created_at / updated_at other than as insertion order) are not stored.  *)
(***************************************************************************)
EXTENDS Integers, Sequences, FiniteSets, TLC

(* ------------------------------ bounds -------------------------------- *)

\* The clock runs from 0 to MaxTime.
MaxTime == 2
\* Link tokens (uuid4 values) issued in a run of the link token manager.
MaxTokens == 2
\* Link tokens issued in a run of the whole phone flow.
MaxLinks == 1
\* Access tokens the provider mints (code exchanges plus refreshes).
MaxMinted == 2
\* Longest access-token lifetime the provider grants.
MaxLifetime == 2
\* Request handlers that run concurrently.
NCallers == 2
\* Nested calls of a provider call that retries itself.
MaxAttempts == 3
\* Scopes in the list a code exchange grants.
MaxScopes == 3

(* ------------------------- program constants --------------------------- *)

\* expires_at TIMESTAMP DEFAULT (CURRENT_TIMESTAMP + INTERVAL '15 minutes'):
\* a link token's time to live, in clock units.
LinkTTL == 1
\* google.oauth2.credentials: a credential counts as expired this long
\* before its expiry (REFRESH_THRESHOLD), as read by creds.valid/.expired.
RefreshThreshold == 1

(* ------------------------------ values --------------------------------- *)

None == <<>>

P1 == <<"+", "1">>
P2 == <<"+", "2">>
\* Phone numbers as Twilio's From field gives them (E.164).
Phones == {P1, P2}

\* The session id Flask keeps for a browser (str(uuid.uuid4())).
S1 == <<"s", "1">>
Sessions == {S1}

\* Link token strings: the uuid4 values 1..MaxTokens in the order they are
\* generated, and Bogus, a string no generate_auth_token call ever returned.
Bogus == MaxTokens + 1
TokenIds == 1..(MaxTokens + 1)

\* The same where at most MaxLinks links are issued.
LinkIds == 1..(MaxLinks + 1)

\* Access-token lifetimes the provider grants (expires_in), all above the
\* client's refresh threshold.
Lifetimes == (RefreshThreshold + 1)..MaxLifetime

\* gmail.readonly, gmail.send, gmail.compose
SCOPES == << <<"r">>, <<"s">>, <<"c">> >>

VARIABLES
    now,          \* datetime.now(timezone.utc) / CURRENT_TIMESTAMP
    users,        \* table users: sequence of rows, id = position
    oauth_tokens, \* table oauth_tokens: sequence of rows in insertion order
    auth_tokens,  \* table auth_tokens: set of rows, auth_token UNIQUE
    uuids,        \* number of uuid4 link tokens generated so far
    minted,       \* number of access tokens the provider has minted
    dbFaults,     \* whether the store may be unavailable in this run
    pc,           \* per caller: the statement a running handler is at
    loc,          \* per caller: the handler's local variables
    last,         \* the handler call that returned last, and its result
    consumed,     \* history: the issued link tokens verify_auth_token was
                  \* called on
    sent          \* the WhatsApp messages the Twilio client has accepted

vars == <<now, users, oauth_tokens, auth_tokens, uuids, minted, dbFaults,
          pc, loc, last, consumed, sent>>

Callers == 1..NCallers

\* psycopg2.connect either succeeds or raises.
DbOutcomes == IF dbFaults THEN BOOLEAN ELSE {TRUE}

(* --------------------------- table users ------------------------------- *)

\* phone_number.replace('+', '').replace(' ', '')
StripPhone(phone) == SelectSeq(phone, LAMBDA c : c # "+" /\ c # " ")

\* session_id = f"phone_{...}"
SessionIdOfPhone(phone) == <<"phone_">> \o StripPhone(phone)

\* SELECT * FROM users WHERE session_id = %s  (fetchone)
SelectUserBySession(us, sid) ==
    LET hit == SelectSeq(us, LAMBDA r : r.session_id = sid)
    IN  IF hit = <<>> THEN None ELSE <<hit[1]>>

\* SELECT * FROM users WHERE phone_number = %s  (fetchone)
SelectUserByPhone(us, phone) ==
    LET hit == SelectSeq(us, LAMBDA r : r.phone_number = phone)
    IN  IF hit = <<>> THEN None ELSE <<hit[1]>>

\* session_id VARCHAR(255) UNIQUE NOT NULL, phone_number VARCHAR(20) UNIQUE
UniqueViolation(us, sid, phone) ==
    \E i \in 1..Len(us) :
        \/ us[i].session_id = sid
        \/ phone # None /\ us[i].phone_number = phone

\* INSERT INTO users (session_id[, phone_number]) VALUES (...) RETURNING *
\* raises psycopg2.errors.UniqueViolation on a duplicate key.
InsertUser(us, sid, phone) ==
    IF UniqueViolation(us, sid, phone)
    THEN [users |-> us, user |-> None, raised |-> TRUE]
    ELSE LET row == [id |-> Len(us) + 1, session_id |-> sid,
                     phone_number |-> phone]
         IN  [users |-> Append(us, row), user |-> <<row>>, raised |-> FALSE]

\* Database.get_or_create_user, run without interleaving.
GetOrCreateUser(us, sid, ok) ==
    IF ~ok THEN [users |-> us, user |-> None, raised |-> TRUE]
    ELSE LET found == SelectUserBySession(us, sid)
         IN  IF found = None
             THEN InsertUser(us, sid, None)
             ELSE [users |-> us, user |-> found, raised |-> FALSE]

\* Database.get_or_create_user_by_phone, run without interleaving.
GetOrCreateUserByPhone(us, phone, ok) ==
    IF ~ok THEN [users |-> us, user |-> None, raised |-> TRUE]
    ELSE LET found == SelectUserByPhone(us, phone)
         IN  IF found = None
             THEN InsertUser(us, SessionIdOfPhone(phone), phone)
             ELSE [users |-> us, user |-> found, raised |-> FALSE]

(* ------------------------ table auth_tokens ---------------------------- *)

\* SELECT phone_number, used, expires_at FROM auth_tokens WHERE auth_token = %s
SelectAuthToken(at, tok) ==
    IF \E r \in at : r.auth_token = tok
    THEN <<CHOOSE r \in at : r.auth_token = tok>>
    ELSE None

\* Database.save_auth_token: INSERT ... ON CONFLICT (auth_token) DO UPDATE
SaveAuthToken(at, tok, phone, t, ok) ==
    IF ~ok THEN [auth_tokens |-> at, ret |-> FALSE]
    ELSE [auth_tokens |->
              {r \in at : r.auth_token # tok}
              \cup {[auth_token |-> tok, phone_number |-> phone,
                     used |-> FALSE, expires_at |-> t + LinkTTL]},
          ret |-> TRUE]

\* A link token that never expires.
TokenNeverExpires(row, t) == FALSE

\* if expires_at < datetime.now(timezone.utc): return None
TokenExpired(row, t) == row.expires_at < t

\* Checks on the row read that let a used token through.
TokenAcceptedThoughUsed(sel, t) ==
    /\ sel # None
    /\ ~TokenExpired(sel[1], t)

\* The checks check_auth_token and verify_auth_token make on the row read.
TokenAccepted(sel, t) ==
    /\ sel # None
    /\ ~TokenExpired(sel[1], t)
    /\ ~sel[1].used

\* A check that returns the phone number of any row it finds.
CheckAuthTokenUnchecked(at, tok, t, ok) ==
    IF ~ok THEN None
    ELSE LET sel == SelectAuthToken(at, tok)
         IN  IF sel # None THEN sel[1].phone_number ELSE None

\* Database.check_auth_token
CheckAuthToken(at, tok, t, ok) ==
    IF ~ok THEN None
    ELSE LET sel == SelectAuthToken(at, tok)
         IN  IF TokenAccepted(sel, t) THEN sel[1].phone_number ELSE None

\* A consume that leaves the used flag as it was.
MarkUsedSkipped(at, tok) == at

\* UPDATE auth_tokens SET used = TRUE WHERE auth_token = %s
MarkUsed(at, tok) ==
    {IF r.auth_token = tok THEN [r EXCEPT !.used = TRUE] ELSE r : r \in at}

\* A verify that returns the phone number and leaves the row as it was.
VerifyAuthTokenPeekOnly(at, tok, t, ok) ==
    [auth_tokens |-> at, ret |-> CheckAuthToken(at, tok, t, ok)]

\* Database.verify_auth_token, run without interleaving.
VerifyAuthToken(at, tok, t, ok) ==
    IF ~ok THEN [auth_tokens |-> at, ret |-> None]
    ELSE LET sel == SelectAuthToken(at, tok)
         IN  IF TokenAccepted(sel, t)
             THEN [auth_tokens |-> MarkUsed(at, tok),
                   ret |-> sel[1].phone_number]
             ELSE [auth_tokens |-> at, ret |-> None]

\* A cleanup that takes the tokens at their expiry instant too.
CleanupExpiredAuthTokensInclusive(at, t, ok) ==
    IF ~ok THEN [auth_tokens |-> at, ret |-> 0]
    ELSE LET gone == {r \in at : r.expires_at <= t}
         IN  [auth_tokens |-> at \ gone, ret |-> Cardinality(gone)]

\* Database.cleanup_expired_auth_tokens:
\* DELETE FROM auth_tokens WHERE expires_at < CURRENT_TIMESTAMP
CleanupExpiredAuthTokens(at, t, ok) ==
    IF ~ok THEN [auth_tokens |-> at, ret |-> 0]
    ELSE LET gone == {r \in at : r.expires_at < t}
         IN  [auth_tokens |-> at \ gone, ret |-> Cardinality(gone)]

(* ----------------------- table oauth_tokens ---------------------------- *)

RECURSIVE JoinScopes(_)
\* ' '.join(credentials.scopes)
JoinScopes(scopes) ==
    IF scopes = <<>> THEN <<>>
    ELSE IF Len(scopes) = 1 THEN scopes[1]
    ELSE scopes[1] \o <<" ">> \o JoinScopes(Tail(scopes))

RECURSIVE SplitScope(_, _)
\* token_data['scope'].split(' '); cur is the piece being read.
SplitScope(str, cur) ==
    IF str = <<>> THEN <<cur>>
    ELSE IF Head(str) = " " THEN <<cur>> \o SplitScope(Tail(str), <<>>)
    ELSE SplitScope(Tail(str), Append(cur, Head(str)))

\* The row save_oauth_tokens inserts for a google Credentials object.
RowOfCredentials(uid, cred) ==
    [user_id |-> uid,
     access_token |-> cred.token,
     refresh_token |-> cred.refresh_token,
     token_expiry |-> cred.expiry,
     scope |-> IF cred.scopes # <<>> THEN JoinScopes(cred.scopes) ELSE None]

\* A save whose DELETE has no WHERE clause.
SaveOauthTokensReplacingAll(ot, uid, cred, ok) ==
    IF ~ok THEN [oauth_tokens |-> ot, ret |-> FALSE]
    ELSE [oauth_tokens |-> <<RowOfCredentials(uid, cred)>>, ret |-> TRUE]

\* A save whose DELETE is committed on its own: when the INSERT fails the
\* user's rows are gone.
SaveOauthTokensDeleteCommitted(ot, uid, cred, ok) ==
    IF ~ok
    THEN [oauth_tokens |-> SelectSeq(ot, LAMBDA r : r.user_id # uid),
          ret |-> FALSE]
    ELSE [oauth_tokens |->
              Append(SelectSeq(ot, LAMBDA r : r.user_id # uid),
                     RowOfCredentials(uid, cred)),
          ret |-> TRUE]

\* A save that reports success and stores nothing.
SaveOauthTokensDropped(ot, uid, cred, ok) ==
    [oauth_tokens |-> ot, ret |-> ok]

\* Database.save_oauth_tokens: DELETE ... WHERE user_id, INSERT, commit.
SaveOauthTokens(ot, uid, cred, ok) ==
    IF ~ok THEN [oauth_tokens |-> ot, ret |-> FALSE]
    ELSE [oauth_tokens |->
              Append(SelectSeq(ot, LAMBDA r : r.user_id # uid),
                     RowOfCredentials(uid, cred)),
          ret |-> TRUE]

\* Database.get_oauth_tokens:
\* SELECT * ... WHERE user_id = %s ORDER BY created_at DESC LIMIT 1
GetOauthTokens(ot, uid) ==
    LET hit == SelectSeq(ot, LAMBDA r : r.user_id = uid)
    IN  IF hit = <<>> THEN None ELSE <<hit[Len(hit)]>>

\* An update that inserts a row when the user has none.
UpdateOauthTokensUpsert(ot, uid, token, expiry, ok) ==
    IF ~ok THEN [oauth_tokens |-> ot, ret |-> FALSE]
    ELSE IF \A i \in 1..Len(ot) : ot[i].user_id # uid
    THEN [oauth_tokens |->
              Append(ot, [user_id |-> uid, access_token |-> token,
                          refresh_token |-> None, token_expiry |-> expiry,
                          scope |-> None]),
          ret |-> TRUE]
    ELSE [oauth_tokens |->
              [i \in 1..Len(ot) |->
                  IF ot[i].user_id = uid
                  THEN [ot[i] EXCEPT !.access_token = token,
                                     !.token_expiry = expiry]
                  ELSE ot[i]],
          ret |-> TRUE]

\* An update whose UPDATE has no WHERE clause.
UpdateOauthTokensAllRows(ot, uid, token, expiry, ok) ==
    IF ~ok THEN [oauth_tokens |-> ot, ret |-> FALSE]
    ELSE [oauth_tokens |->
              [i \in 1..Len(ot) |->
                  [ot[i] EXCEPT !.access_token = token,
                                !.token_expiry = expiry]],
          ret |-> TRUE]

\* An update that writes the refresh token column as well.
UpdateOauthTokensAllColumns(ot, uid, token, expiry, ok) ==
    IF ~ok THEN [oauth_tokens |-> ot, ret |-> FALSE]
    ELSE [oauth_tokens |->
              [i \in 1..Len(ot) |->
                  IF ot[i].user_id = uid
                  THEN [ot[i] EXCEPT !.access_token = token,
                                     !.token_expiry = expiry,
                                     !.refresh_token = <<token>>]
                  ELSE ot[i]],
          ret |-> TRUE]

\* Database.update_oauth_tokens:
\* UPDATE oauth_tokens SET access_token, token_expiry WHERE user_id = %s
UpdateOauthTokens(ot, uid, token, expiry, ok) ==
    IF ~ok THEN [oauth_tokens |-> ot, ret |-> FALSE]
    ELSE [oauth_tokens |->
              [i \in 1..Len(ot) |->
                  IF ot[i].user_id = uid
                  THEN [ot[i] EXCEPT !.access_token = token,
                                     !.token_expiry = expiry]
                  ELSE ot[i]],
          ret |-> TRUE]

\* A delete that reports failure when it found no row to remove.
DeleteOauthTokensStrict(ot, uid, ok) ==
    [oauth_tokens |-> IF ok THEN SelectSeq(ot, LAMBDA r : r.user_id # uid)
                      ELSE ot,
     ret |-> ok /\ \E i \in 1..Len(ot) : ot[i].user_id = uid]

\* A delete that reports success and removes nothing.
DeleteOauthTokensKept(ot, uid, ok) ==
    [oauth_tokens |-> ot, ret |-> ok]

\* Database.delete_oauth_tokens: DELETE FROM oauth_tokens WHERE user_id = %s
DeleteOauthTokens(ot, uid, ok) ==
    IF ~ok THEN [oauth_tokens |-> ot, ret |-> FALSE]
    ELSE [oauth_tokens |-> SelectSeq(ot, LAMBDA r : r.user_id # uid),
          ret |-> TRUE]

(* --------------------- google Credentials, provider -------------------- *)

\* Credentials.expired: no expiry never expires; otherwise
\* utcnow() >= expiry - REFRESH_THRESHOLD.
CredExpired(cred, t) ==
    /\ cred.expiry # None
    /\ t >= cred.expiry[1] - RefreshThreshold

\* Credentials.valid: token is not None and not expired
\* (access_token TEXT NOT NULL: the token is never None).
CredValid(cred, t) == ~CredExpired(cred, t)

\* What the token endpoint may answer to a code exchange or a refresh: a
\* rejection, or (while the mint lasts) a token with a lifetime and, for a
\* code exchange, with or without a refresh token.
ProviderResponses(n) ==
    {[ok |-> FALSE, lifetime |-> MaxLifetime, offline |-> FALSE]}
    \cup (IF n < MaxMinted
          THEN [ok : {TRUE}, lifetime : Lifetimes, offline : BOOLEAN]
          ELSE {})

\* flow.fetch_token(code=...); flow.credentials
ExchangeCode(n, t, resp) ==
    [token |-> n + 1,
     refresh_token |-> IF resp.offline THEN <<n + 1>> ELSE None,
     expiry |-> <<t + resp.lifetime>>,
     scopes |-> SCOPES]

\* creds.refresh(Request()): a new access token and expiry, the rest kept.
RefreshCredentials(cred, n, t, resp) ==
    [cred EXCEPT !.token = n + 1, !.expiry = <<t + resp.lifetime>>]

\* A load that gives every credential the default scopes.
WebCredentialsOfRowDefaultScopes(row) ==
    [token |-> row.access_token,
     refresh_token |-> row.refresh_token,
     expiry |-> row.token_expiry,
     scopes |-> SCOPES]

\* GmailWebAuth.get_credentials: Credentials(..., expiry=token_expiry)
WebCredentialsOfRow(row) ==
    [token |-> row.access_token,
     refresh_token |-> row.refresh_token,
     expiry |-> row.token_expiry,
     scopes |-> IF row.scope # None THEN SplitScope(row.scope, <<>>)
                ELSE SCOPES]

\* PhoneBasedGmailAuth._tokens_to_credentials: no expiry is passed.
TokensToCredentials(row) ==
    [token |-> row.access_token,
     refresh_token |-> row.refresh_token,
     expiry |-> None,
     scopes |-> IF row.scope # None THEN SplitScope(row.scope, <<>>)
                ELSE SCOPES]

(* --------------------------- the handlers ------------------------------ *)

\* The record of the handler call that returned last: its name, the link
\* token or user id it was about, the phone number it was given or returned,
\* and whether it succeeded.
Returned(op, tok, phone, uid, ok) ==
    [op |-> op, tok |-> tok, phone |-> phone, uid |-> uid, ok |-> ok]

\* A get_credentials that refreshes whenever there is a refresh token.
RefreshWheneverPossible(ot, uid, creds, n, t, resp, okW) ==
    IF creds.refresh_token # None
    THEN IF resp.ok
         THEN LET fresh == RefreshCredentials(creds, n, t, resp)
                  w == UpdateOauthTokens(ot, uid, fresh.token, fresh.expiry,
                                         okW)
              IN  [oauth_tokens |-> w.oauth_tokens, minted |-> n + 1,
                   ret |-> <<fresh>>, refreshed |-> TRUE]
         ELSE [oauth_tokens |-> ot, minted |-> n, ret |-> None,
               refreshed |-> TRUE]
    ELSE IF CredValid(creds, t)
    THEN [oauth_tokens |-> ot, minted |-> n, ret |-> <<creds>>,
          refreshed |-> FALSE]
    ELSE [oauth_tokens |-> ot, minted |-> n, ret |-> None,
          refreshed |-> FALSE]

\* get_credentials from "if creds and not creds.valid" to "return creds":
\* the same statements in PhoneBasedGmailAuth and GmailWebAuth.
RefreshIfNeeded(ot, uid, creds, n, t, resp, okW) ==
    IF CredValid(creds, t)
    THEN [oauth_tokens |-> ot, minted |-> n, ret |-> <<creds>>,
          refreshed |-> FALSE]
    ELSE IF CredExpired(creds, t) /\ creds.refresh_token # None
    THEN IF resp.ok
         THEN LET fresh == RefreshCredentials(creds, n, t, resp)
                  w == UpdateOauthTokens(ot, uid, fresh.token, fresh.expiry,
                                         okW)
              IN  [oauth_tokens |-> w.oauth_tokens, minted |-> n + 1,
                   ret |-> <<fresh>>, refreshed |-> TRUE]
         ELSE [oauth_tokens |-> ot, minted |-> n, ret |-> None,
               refreshed |-> TRUE]
    ELSE [oauth_tokens |-> ot, minted |-> n, ret |-> None,
          refreshed |-> FALSE]

\* PhoneBasedGmailAuth.get_credentials(phone_number): every exception is
\* caught and turned into None.
PhoneGetCredentials(phone, resp, okU, okG, okW) ==
    LET u == GetOrCreateUserByPhone(users, phone, okU)
    IN  IF u.raised
        THEN [users |-> users, oauth_tokens |-> oauth_tokens,
              minted |-> minted, ret |-> None, refreshed |-> FALSE]
        ELSE LET row == IF okG THEN GetOauthTokens(oauth_tokens, u.user[1].id)
                        ELSE None
             IN  IF row = None
                 THEN [users |-> u.users, oauth_tokens |-> oauth_tokens,
                       minted |-> minted, ret |-> None, refreshed |-> FALSE]
                 ELSE [users |-> u.users] @@
                      RefreshIfNeeded(oauth_tokens, u.user[1].id,
                                      TokensToCredentials(row[1]),
                                      minted, now, resp, okW)

\* GmailWebAuth.get_credentials for self.user_id = uid: get_oauth_tokens is
\* outside any try, so a store failure there is raised to the caller.
WebGetCredentials(uid, resp, okG, okW) ==
    IF ~okG
    THEN [oauth_tokens |-> oauth_tokens, minted |-> minted, ret |-> None,
          refreshed |-> FALSE, raised |-> TRUE]
    ELSE LET row == GetOauthTokens(oauth_tokens, uid)
         IN  IF row = None
             THEN [oauth_tokens |-> oauth_tokens, minted |-> minted,
                   ret |-> None, refreshed |-> FALSE, raised |-> FALSE]
             ELSE [raised |-> FALSE] @@
                  RefreshIfNeeded(oauth_tokens, uid,
                                  WebCredentialsOfRow(row[1]),
                                  minted, now, resp, okW)

\* _send_auth_success_message(phone_number): messages.create
SendAuthSuccessMessage(out, phone) ==
    out \cup {[to |-> phone, kind |-> "auth_success"]}

\* PhoneBasedGmailAuth.complete_oauth_flow(authorization_code, phone_token)
CompleteOauthFlow(tok, resp, okV, okU, okS) ==
    LET v == VerifyAuthToken(auth_tokens, tok, now, okV)
    IN  IF v.ret = None
        THEN [auth_tokens |-> v.auth_tokens, users |-> users,
              oauth_tokens |-> oauth_tokens, minted |-> minted,
              ret |-> FALSE, phone |-> None, exchanged |-> FALSE, sent |-> sent]
        ELSE IF ~resp.ok
        THEN [auth_tokens |-> v.auth_tokens, users |-> users,
              oauth_tokens |-> oauth_tokens, minted |-> minted,
              ret |-> FALSE, phone |-> v.ret, exchanged |-> TRUE,
              sent |-> sent]
        ELSE LET cred == ExchangeCode(minted, now, resp)
                 u == GetOrCreateUserByPhone(users, v.ret, okU)
             IN  IF u.raised
                 THEN [auth_tokens |-> v.auth_tokens, users |-> users,
                       oauth_tokens |-> oauth_tokens, minted |-> minted + 1,
                       ret |-> FALSE, phone |-> v.ret, exchanged |-> TRUE,
              sent |-> sent]
                 ELSE LET s == SaveOauthTokens(oauth_tokens, u.user[1].id,
                                               cred, okS)
                      IN  [auth_tokens |-> v.auth_tokens, users |-> u.users,
                           oauth_tokens |-> s.oauth_tokens,
                           minted |-> minted + 1, ret |-> s.ret,
                           phone |-> v.ret, exchanged |-> TRUE,
                           sent |-> IF s.ret
                                    THEN SendAuthSuccessMessage(sent, v.ret)
                                    ELSE sent]

\* _send_already_authenticated_message(phone_number): messages.create
SendAlreadyAuthenticatedMessage(out, phone) ==
    out \cup {[to |-> phone, kind |-> "already_authenticated"]}

\* The message carrying the link {base_url}/auth/gmail?phone_token={tok}.
AuthLinkMessage(phone, tok, kind) == [to |-> phone, kind |-> kind, tok |-> tok]

\* A send_auth_link_whatsapp that sends the link whether or not its token
\* was saved.
SendAuthLinkWhatsappUnsaved(phone, uuid, okS, okM) ==
    LET s == SaveAuthToken(auth_tokens, uuid, phone, now, okS)
    IN  [auth_tokens |-> s.auth_tokens,
         sent |-> IF okM
                  THEN sent \cup {AuthLinkMessage(phone, uuid, "auth_link")}
                  ELSE sent,
         ret |-> okM, issued |-> s.ret]

\* WhatsAppAuthService.send_auth_link_whatsapp(phone_number): the link token
\* uuid is saved by create_gmail_auth_url, then the message is handed to
\* Twilio (okM); either failure is caught and gives False.
SendAuthLinkWhatsapp(phone, uuid, okS, okM) ==
    LET s == SaveAuthToken(auth_tokens, uuid, phone, now, okS)
    IN  IF ~s.ret
        THEN [auth_tokens |-> s.auth_tokens, sent |-> sent, ret |-> FALSE,
              issued |-> FALSE]
        ELSE [auth_tokens |-> s.auth_tokens,
              sent |-> IF okM
                       THEN sent \cup
                                {AuthLinkMessage(phone, uuid, "auth_link")}
                       ELSE sent,
              ret |-> okM, issued |-> TRUE]

\* MessagingService.send_auth_link_sms(phone_number): without a configured
\* TWILIO_SMS_NUMBER it returns False at once; otherwise as above, by SMS.
SendAuthLinkSms(phone, uuid, configured, okS, okM) ==
    IF ~configured
    THEN [auth_tokens |-> auth_tokens, sent |-> sent, ret |-> FALSE,
          issued |-> FALSE]
    ELSE LET s == SaveAuthToken(auth_tokens, uuid, phone, now, okS)
         IN  IF ~s.ret
             THEN [auth_tokens |-> s.auth_tokens, sent |-> sent,
                   ret |-> FALSE, issued |-> FALSE]
             ELSE [auth_tokens |-> s.auth_tokens,
                   sent |-> IF okM
                            THEN sent \cup
                                     {AuthLinkMessage(phone, uuid,
                                                      "auth_link_sms")}
                            ELSE sent,
                   ret |-> okM, issued |-> TRUE]

\* PhoneBasedGmailAuth.initiate_phone_auth for a request whose phone number
\* parses; uuid is the uuid4 drawn if a link is made.
InitiatePhoneAuth(phone, uuid, okU, okG, okS, okM) ==
    LET u == GetOrCreateUserByPhone(users, phone, okU)
        kept == [users |-> users, auth_tokens |-> auth_tokens,
                 sent |-> sent, ret |-> FALSE, issued |-> FALSE]
    IN  IF u.raised \/ ~okG THEN [kept EXCEPT !.users = u.users]
        ELSE LET row == GetOauthTokens(oauth_tokens, u.user[1].id)
             IN  IF /\ row # None
                    /\ CredValid(TokensToCredentials(row[1]), now)
                 THEN [kept EXCEPT
                          !.users = u.users,
                          !.sent = SendAlreadyAuthenticatedMessage(sent,
                                                                   phone),
                          !.ret = TRUE]
                 ELSE [users |-> u.users] @@
                      SendAuthLinkWhatsapp(phone, uuid, okS, okM)

\* GmailWebAuth.exchange_code_for_token(code, state, user_id)
ExchangeCodeForToken(uid, resp, okS) ==
    IF ~resp.ok
    THEN [oauth_tokens |-> oauth_tokens, minted |-> minted, ret |-> None,
          raised |-> TRUE]
    ELSE LET cred == ExchangeCode(minted, now, resp)
             s == SaveOauthTokens(oauth_tokens, uid, cred, okS)
         IN  [oauth_tokens |-> s.oauth_tokens, minted |-> minted + 1,
              ret |-> IF s.ret THEN <<cred>> ELSE None, raised |-> FALSE]

(* ----------------------- the callback routes -------------------------- *)
(* A route handler reads the query string and the Flask session, a signed   *)
(* cookie the browser sends with the request: both are inputs of the call.  *)

\* The code query parameter: absent, or an authorization code (whether the
\* provider honours it is the provider's answer).
Codes == {None, <<"code">>}

\* session['oauth_state']: absent, or the value flow.authorization_url()
\* generated for the attempt.
ExpectedStates == {None, <<"st1">>}

\* The state query parameter: absent, that value, or another one.
States == ExpectedStates \cup {<<"st2">>}

\* The pages the callback routes render.
PageNoCode == <<"No authorization code received">>
PageNoSession == <<"Session expired">>
PageInvalidState == <<"Invalid state parameter">>
PageSuccess == <<"Authentication Successful">>
PageFailed == <<"Authentication Failed">>
PageError == <<"Error during authentication">>

\* A state comparison that lets every request through.
StateNeverDiffers(state, expected) == FALSE

\* if state != expected_state  /  request.args.get('state') !=
\* session.get('oauth_state')
StateDiffers(state, expected) == state # expected

\* What a callback leaves when it returns before touching the store.
Refused(page) ==
    [auth_tokens |-> auth_tokens, users |-> users,
     oauth_tokens |-> oauth_tokens, minted |-> minted, ret |-> FALSE,
     phone |-> None, exchanged |-> FALSE, verified |-> FALSE, page |-> page,
     sent |-> sent]

\* The pages of gmail_phone_auth: no phone_token in the query string, and a
\* link that create_oauth_flow turns down.
PageInvalidLink == <<"Invalid authentication link">>
PageExpiredLink == <<"Invalid or expired authentication link">>

\* gmail_phone_auth: phone_token from the query string (None if absent).
\* create_oauth_flow peeks at the token; only for an accepted one the route
\* makes the authorization URL and state, writes phone_token and oauth_state
\* to the session and redirects.
GmailPhoneAuth(phone_token, ok) ==
    LET refused(page) ==
            [auth_tokens |-> auth_tokens, users |-> users,
             oauth_tokens |-> oauth_tokens, status |-> 400, page |-> page,
             url |-> None, state |-> None, session |-> None]
    IN  IF phone_token = None THEN refused(PageInvalidLink)
        ELSE IF CheckAuthToken(auth_tokens, phone_token[1], now, ok) = None
        THEN refused(PageExpiredLink)
        ELSE [auth_tokens |-> auth_tokens, users |-> users,
              oauth_tokens |-> oauth_tokens, status |-> 302, page |-> None,
              url |-> <<"authorization_url">>, state |-> <<"st1">>,
              session |-> <<[phone_token |-> phone_token[1],
                             oauth_state |-> <<"st1">>]>>]

\* gmail_phone_callback, the checks before complete_oauth_flow: the page
\* of the first one that fails, or None.
PhoneCallbackRefusal(code, state, phone_token, expected_state) ==
    IF code = None THEN PageNoCode
    ELSE IF phone_token = None THEN PageNoSession
    ELSE IF StateDiffers(state, expected_state) THEN PageInvalidState
    ELSE None

\* A callback that verifies the session's link token before it looks at the
\* code and the state.
PhoneCallbackVerifyFirst(code, state, phone_token, expected_state, resp) ==
    LET refusal == PhoneCallbackRefusal(code, state, phone_token,
                                        expected_state)
    IN  IF phone_token = None THEN Refused(refusal)
        ELSE IF refusal # None
        THEN [Refused(refusal) EXCEPT
                 !.auth_tokens = VerifyAuthToken(auth_tokens, phone_token[1],
                                                 now, TRUE).auth_tokens,
                 !.verified = TRUE]
        ELSE LET r == CompleteOauthFlow(phone_token[1], resp,
                                        TRUE, TRUE, TRUE)
             IN  r @@ [verified |-> TRUE,
                       page |-> IF r.ret THEN PageSuccess ELSE PageFailed]

\* gmail_phone_callback: code and state from the query string, phone_token
\* (None if absent) and expected_state from the session.
GmailPhoneCallback(code, state, phone_token, expected_state, resp) ==
    LET refusal == PhoneCallbackRefusal(code, state, phone_token,
                                        expected_state)
    IN  IF refusal # None THEN Refused(refusal)
        ELSE LET r == CompleteOauthFlow(phone_token[1], resp,
                                        TRUE, TRUE, TRUE)
             IN  r @@ [verified |-> TRUE,
                       page |-> IF r.ret THEN PageSuccess ELSE PageFailed]

\* auth_callback, the checks before exchange_code_for_token.
\* session['oauth_state'] raises KeyError when the key is absent, which the
\* route's except turns into the error page.
AuthCallbackRefusal(code, state, expected_state, user_id) ==
    IF StateDiffers(state, expected_state) THEN PageInvalidState
    ELSE IF code = None THEN PageNoCode
    ELSE IF user_id = None THEN PageNoSession
    ELSE IF expected_state = None THEN PageError
    ELSE None

\* auth_callback: state and code from the query string, oauth_state and
\* auth_user_id (None if absent) from the session.  A fetch_token that
\* raises gives the error page too.
AuthCallback(code, state, expected_state, user_id, resp) ==
    LET refusal == AuthCallbackRefusal(code, state, expected_state, user_id)
    IN  IF refusal # None THEN Refused(refusal)
        ELSE LET r == ExchangeCodeForToken(user_id[1], resp, TRUE)
             IN  [auth_tokens |-> auth_tokens, users |-> users,
                  oauth_tokens |-> r.oauth_tokens, minted |-> r.minted,
                  ret |-> r.ret # None, phone |-> None, exchanged |-> TRUE,
                  verified |-> FALSE, sent |-> sent,
                  page |-> IF r.raised THEN PageError
                           ELSE IF r.ret # None THEN PageSuccess
                           ELSE PageFailed]

(* ------------------ handlers run one at a time ------------------------- *)

NoLocals == [op |-> "none", tok |-> Bogus, phone |-> None, sel |-> None,
             ret |-> None, raised |-> FALSE]

Init ==
    /\ now = 0
    /\ users = <<>>
    /\ oauth_tokens = <<>>
    /\ auth_tokens = {}
    /\ uuids = 0
    /\ minted = 0
    /\ dbFaults = FALSE
    /\ pc = [c \in Callers |-> "idle"]
    /\ loc = [c \in Callers |-> NoLocals]
    /\ last = Returned("init", Bogus, None, 0, FALSE)
    /\ consumed = {}
    /\ sent = {}

\* Time passes.
Tick ==
    /\ now < MaxTime
    /\ now' = now + 1
    /\ last' = Returned("tick", Bogus, None, 0, FALSE)
    /\ UNCHANGED <<users, oauth_tokens, auth_tokens, uuids, minted, dbFaults,
                   pc, loc, consumed, sent>>

\* WhatsAppAuthService.create_gmail_auth_url(phone_number): a fresh uuid4 is
\* saved as the link token; generate_auth_token raises if the save fails.
\* cap bounds the links issued in a run.
StartAuthentication(phone, cap) ==
    /\ uuids < cap
    /\ \E ok \in DbOutcomes :
        LET tok == uuids + 1
            s == SaveAuthToken(auth_tokens, tok, phone, now, ok)
        IN  /\ auth_tokens' = s.auth_tokens
            /\ uuids' = tok
            /\ last' = Returned("issue", tok, phone, 0, s.ret)
    /\ UNCHANGED <<now, users, oauth_tokens, minted, dbFaults, pc, loc,
                   consumed, sent>>

\* A peek that marks the token it accepts as used.
PeekMarkingUsed(tok) ==
    /\ \E ok \in DbOutcomes :
        LET phone == CheckAuthToken(auth_tokens, tok, now, ok)
        IN  /\ last' = Returned("peek", tok, phone, 0, phone # None)
            /\ auth_tokens' = IF phone # None THEN MarkUsed(auth_tokens, tok)
                              ELSE auth_tokens
    /\ UNCHANGED <<now, users, oauth_tokens, uuids, minted, dbFaults, pc, loc,
                   consumed, sent>>

\* PhoneBasedGmailAuth.create_oauth_flow(phone_token), that is
\* WhatsAppAuthService.check_auth_token: peeks at the token.
Peek(tok) ==
    /\ \E ok \in DbOutcomes :
        LET phone == CheckAuthToken(auth_tokens, tok, now, ok)
        IN  last' = Returned("peek", tok, phone, 0, phone # None)
    /\ UNCHANGED <<now, users, oauth_tokens, auth_tokens, uuids, minted,
                   dbFaults, pc, loc, consumed, sent>>

\* WhatsAppAuthService.verify_auth_token(auth_token)
Consume(tok) ==
    /\ \E ok \in DbOutcomes :
        LET r == VerifyAuthToken(auth_tokens, tok, now, ok)
        IN  /\ auth_tokens' = r.auth_tokens
            /\ last' = Returned("consume", tok, r.ret, 0, r.ret # None)
    /\ consumed' = IF tok <= uuids THEN consumed \cup {tok} ELSE consumed
    /\ UNCHANGED <<now, users, oauth_tokens, uuids, minted, dbFaults, pc,
                   loc, sent>>

\* WhatsAppAuthService.cleanup_expired_tokens
Sweep ==
    /\ \E ok \in DbOutcomes :
        LET r == CleanupExpiredAuthTokens(auth_tokens, now, ok)
        IN  /\ auth_tokens' = r.auth_tokens
            /\ last' = Returned("sweep", Bogus, None, r.ret, ok)
    /\ UNCHANGED <<now, users, oauth_tokens, uuids, minted, dbFaults, pc,
                   loc, consumed, sent>>

\* gmail_phone_callback with a code, the session's link token and a matching
\* state: PhoneBasedGmailAuth.complete_oauth_flow(code, phone_token).
Complete(tok) ==
    /\ \E resp \in ProviderResponses(minted), okV, okU, okS \in DbOutcomes :
        LET r == CompleteOauthFlow(tok, resp, okV, okU, okS)
        IN  /\ auth_tokens' = r.auth_tokens
            /\ users' = r.users
            /\ oauth_tokens' = r.oauth_tokens
            /\ minted' = r.minted
            /\ sent' = r.sent
            /\ last' = Returned("complete", tok, r.phone, 0, r.ret)
    /\ consumed' = IF tok <= uuids THEN consumed \cup {tok} ELSE consumed
    /\ UNCHANGED <<now, uuids, dbFaults, pc, loc>>

\* PhoneBasedGmailAuth.get_credentials(phone_number)
PhoneCredentials(phone) ==
    /\ \E resp \in ProviderResponses(minted), okU, okG, okW \in DbOutcomes :
        LET r == PhoneGetCredentials(phone, resp, okU, okG, okW)
        IN  /\ users' = r.users
            /\ oauth_tokens' = r.oauth_tokens
            /\ minted' = r.minted
            /\ last' = Returned("phone_credentials", Bogus, phone, 0,
                                r.ret # None)
    /\ UNCHANGED <<now, auth_tokens, uuids, dbFaults, pc, loc, consumed, sent>>

\* The users a browser session addresses: get_current_user's rows.
WebUserIds == {i \in 1..Len(users) : users[i].phone_number = None}

\* get_current_user(): Database.get_or_create_user(session_id)
WebVisit(sid) ==
    /\ \E ok \in DbOutcomes :
        LET r == GetOrCreateUser(users, sid, ok)
        IN  /\ users' = r.users
            /\ last' = Returned("visit", Bogus, sid,
                                IF r.user = None THEN 0 ELSE r.user[1].id,
                                ~r.raised)
    /\ UNCHANGED <<now, oauth_tokens, auth_tokens, uuids, minted, dbFaults,
                   pc, loc, consumed, sent>>

\* auth_callback with a matching state and a code:
\* GmailWebAuth(user_id).exchange_code_for_token(code, state, user_id)
WebCallback(uid) ==
    /\ \E resp \in ProviderResponses(minted), okS \in DbOutcomes :
        LET r == ExchangeCodeForToken(uid, resp, okS)
        IN  /\ oauth_tokens' = r.oauth_tokens
            /\ minted' = r.minted
            /\ last' = Returned("web_complete", Bogus, None, uid,
                                r.ret # None)
    /\ UNCHANGED <<now, users, auth_tokens, uuids, dbFaults, pc, loc,
                   consumed, sent>>

\* GmailWebAuth(user_id).get_credentials()
WebCredentials(uid) ==
    /\ \E resp \in ProviderResponses(minted), okG, okW \in DbOutcomes :
        LET r == WebGetCredentials(uid, resp, okG, okW)
        IN  /\ oauth_tokens' = r.oauth_tokens
            /\ minted' = r.minted
            /\ last' = Returned("web_credentials", Bogus, None, uid,
                                r.ret # None)
    /\ UNCHANGED <<now, users, auth_tokens, uuids, dbFaults, pc, loc,
                   consumed, sent>>

\* GmailWebAuth(user_id).logout()
WebLogout(uid) ==
    /\ \E ok \in DbOutcomes :
        LET r == DeleteOauthTokens(oauth_tokens, uid, ok)
        IN  /\ oauth_tokens' = r.oauth_tokens
            /\ last' = Returned("logout", Bogus, None, uid, r.ret)
    /\ UNCHANGED <<now, users, auth_tokens, uuids, minted, dbFaults, pc, loc,
                   consumed, sent>>

\* What a route handler that returned last leaves in last: the page it
\* rendered is kept where other handlers keep a phone number.
Rendered(op, tok, page, uid, ok) == Returned(op, tok, page, uid, ok)

\* The answers the token endpoint may give in a request: the route asks it
\* only once it has let the request through.
Asked(refused, n) ==
    IF refused THEN {[ok |-> FALSE, lifetime |-> MaxLifetime, offline |-> FALSE]}
    ELSE ProviderResponses(n)

\* A request to /auth/gmail/callback.
PhoneCallbackRequest ==
    /\ \E code \in Codes, state \in States, expected \in ExpectedStates,
          phone_token \in {None} \cup {<<tok>> : tok \in LinkIds} :
        \E resp \in Asked(PhoneCallbackRefusal(code, state, phone_token,
                                               expected) # None, minted) :
        LET r == GmailPhoneCallback(code, state, phone_token, expected, resp)
            tok == IF phone_token = None THEN Bogus ELSE phone_token[1]
        IN  /\ auth_tokens' = r.auth_tokens
            /\ users' = r.users
            /\ oauth_tokens' = r.oauth_tokens
            /\ minted' = r.minted
            /\ sent' = r.sent
            /\ last' = Rendered("phone_callback", tok, r.page, 0, r.ret)
            /\ consumed' = IF r.verified /\ tok <= uuids
                           THEN consumed \cup {tok} ELSE consumed
    /\ UNCHANGED <<now, uuids, dbFaults, pc, loc>>

\* A request to /auth/callback.
AuthCallbackRequest ==
    /\ \E code \in Codes, state \in States, expected \in ExpectedStates,
          user_id \in {None} \cup {<<uid>> : uid \in WebUserIds} :
        \E resp \in Asked(AuthCallbackRefusal(code, state, expected,
                                              user_id) # None, minted) :
        LET r == AuthCallback(code, state, expected, user_id, resp)
        IN  /\ oauth_tokens' = r.oauth_tokens
            /\ minted' = r.minted
            /\ last' = Rendered("auth_callback", Bogus, r.page,
                                IF user_id = None THEN 0 ELSE user_id[1],
                                r.ret)
    /\ UNCHANGED <<now, users, auth_tokens, uuids, dbFaults, pc, loc,
                   consumed, sent>>

NextLink ==
    \/ Tick
    \/ \E phone \in Phones : StartAuthentication(phone, MaxTokens)
    \/ \E tok \in TokenIds : Peek(tok)
    \/ \E tok \in TokenIds : Consume(tok)
    \/ Sweep

\* The link token manager alone.
SpecLink == Init /\ [][NextLink]_vars

Next ==
    \/ Tick
    \/ \E phone \in Phones : StartAuthentication(phone, MaxLinks)
    \/ \E tok \in LinkIds : Peek(tok)
    \/ \E tok \in LinkIds : Complete(tok)
    \/ \E phone \in Phones : PhoneCredentials(phone)

\* The phone-linked flow: links, the phone callback and the broker.
Spec == Init /\ [][Next]_vars

NextWeb ==
    \/ Tick
    \/ \E sid \in Sessions : WebVisit(sid)
    \/ \E uid \in WebUserIds : WebCallback(uid)
    \/ \E uid \in WebUserIds : WebCredentials(uid)
    \/ \E uid \in WebUserIds : WebLogout(uid)

\* The browser-session flow, which shares no row with the phone flow.
SpecWeb == Init /\ [][NextWeb]_vars

NextCallback ==
    \/ StartAuthentication(P1, MaxLinks)
    \/ \E sid \in Sessions : WebVisit(sid)
    \/ PhoneCallbackRequest
    \/ AuthCallbackRequest

\* The two OAuth callback routes, with any query string and session, for the
\* links of one phone number and at one instant.
SpecCallback == Init /\ [][NextCallback]_vars

(* --------------- handlers interleaved statement by statement ----------- *)
(* Each caller runs one handler on a connection of its own.  PostgreSQL     *)
(* runs each statement atomically on the committed rows (READ COMMITTED,    *)
(* the default psycopg2 leaves in place); a handler's statements are        *)
(* separate steps, and another caller may run between them.                 *)

\* verify_auth_token, first statement: SELECT ... WHERE auth_token = %s
VerifySelect(c, tok) ==
    /\ pc[c] = "idle"
    /\ pc' = [pc EXCEPT ![c] = "verify_selected"]
    /\ loc' = [loc EXCEPT ![c] = [NoLocals EXCEPT
                  !.op = "verify", !.tok = tok,
                  !.sel = SelectAuthToken(auth_tokens, tok)]]
    /\ UNCHANGED <<now, users, oauth_tokens, auth_tokens, uuids, minted,
                   dbFaults, last, consumed, sent>>

\* verify_auth_token, from "if not token_data" to the return: the checks on
\* the row read earlier, then UPDATE ... SET used = TRUE and the commit.
VerifyUpdate(c) ==
    /\ pc[c] = "verify_selected"
    /\ LET accepted == TokenAccepted(loc[c].sel, now)
           ret == IF accepted THEN loc[c].sel[1].phone_number ELSE None
       IN  /\ auth_tokens' = IF accepted
                             THEN MarkUsed(auth_tokens, loc[c].tok)
                             ELSE auth_tokens
           /\ loc' = [loc EXCEPT ![c].ret = ret]
           /\ last' = Returned("consume", loc[c].tok, ret, 0, ret # None)
    /\ pc' = [pc EXCEPT ![c] = "returned"]
    /\ consumed' = IF loc[c].tok <= uuids THEN consumed \cup {loc[c].tok}
                   ELSE consumed
    /\ UNCHANGED <<now, users, oauth_tokens, uuids, minted, dbFaults, sent>>

\* get_or_create_user_by_phone, first statement:
\* SELECT * FROM users WHERE phone_number = %s
PhoneUserSelect(c, phone) ==
    /\ pc[c] = "idle"
    /\ pc' = [pc EXCEPT ![c] = "phone_user_selected"]
    /\ loc' = [loc EXCEPT ![c] = [NoLocals EXCEPT
                  !.op = "phone_user", !.phone = phone,
                  !.sel = SelectUserByPhone(users, phone)]]
    /\ UNCHANGED <<now, users, oauth_tokens, auth_tokens, uuids, minted,
                   dbFaults, last, consumed, sent>>

\* get_or_create_user_by_phone, "if not user": INSERT and commit, which
\* raises on a duplicate key; else UPDATE last_login and commit.
PhoneUserWrite(c) ==
    /\ pc[c] = "phone_user_selected"
    /\ LET r == IF loc[c].sel = None
                THEN InsertUser(users, SessionIdOfPhone(loc[c].phone),
                                loc[c].phone)
                ELSE [users |-> users, user |-> loc[c].sel, raised |-> FALSE]
       IN  /\ users' = r.users
           /\ loc' = [loc EXCEPT ![c].ret = r.user, ![c].raised = r.raised]
           /\ last' = Returned("phone_user", Bogus, loc[c].phone,
                               IF r.user = None THEN 0 ELSE r.user[1].id,
                               ~r.raised)
    /\ pc' = [pc EXCEPT ![c] = "returned"]
    /\ UNCHANGED <<now, oauth_tokens, auth_tokens, uuids, minted, dbFaults,
                   consumed, sent>>

\* get_or_create_user, first statement:
\* SELECT * FROM users WHERE session_id = %s
SessionUserSelect(c, sid) ==
    /\ pc[c] = "idle"
    /\ pc' = [pc EXCEPT ![c] = "session_user_selected"]
    /\ loc' = [loc EXCEPT ![c] = [NoLocals EXCEPT
                  !.op = "session_user", !.phone = sid,
                  !.sel = SelectUserBySession(users, sid)]]
    /\ UNCHANGED <<now, users, oauth_tokens, auth_tokens, uuids, minted,
                   dbFaults, last, consumed, sent>>

\* get_or_create_user, "if not user": INSERT and commit, which raises on a
\* duplicate key; else UPDATE last_login and commit.
SessionUserWrite(c) ==
    /\ pc[c] = "session_user_selected"
    /\ LET r == IF loc[c].sel = None
                THEN InsertUser(users, loc[c].phone, None)
                ELSE [users |-> users, user |-> loc[c].sel, raised |-> FALSE]
       IN  /\ users' = r.users
           /\ loc' = [loc EXCEPT ![c].ret = r.user, ![c].raised = r.raised]
           /\ last' = Returned("visit", Bogus, loc[c].phone,
                               IF r.user = None THEN 0 ELSE r.user[1].id,
                               ~r.raised)
    /\ pc' = [pc EXCEPT ![c] = "returned"]
    /\ UNCHANGED <<now, oauth_tokens, auth_tokens, uuids, minted, dbFaults,
                   consumed, sent>>

NextRace ==
    \/ Tick
    \/ \E phone \in Phones : StartAuthentication(phone, MaxLinks)
    \/ \E c \in Callers, tok \in LinkIds : VerifySelect(c, tok)
    \/ \E c \in Callers : VerifyUpdate(c)
    \/ \E c \in Callers, phone \in Phones : PhoneUserSelect(c, phone)
    \/ \E c \in Callers : PhoneUserWrite(c)
    \/ \E c \in Callers, sid \in Sessions : SessionUserSelect(c, sid)
    \/ \E c \in Callers : SessionUserWrite(c)

\* Concurrent callers, each running one handler.
SpecRace == Init /\ [][NextRace]_vars

NextSweepRace ==
    \/ Tick
    \/ StartAuthentication(P1, MaxTokens)
    \/ \E tok \in LinkIds : Peek(tok)
    \/ \E tok \in LinkIds : VerifySelect(1, tok)
    \/ VerifyUpdate(1)
    \/ Sweep

\* cleanup_expired_tokens run between the statements of a verify_auth_token
\* call.
SpecSweepRace == Init /\ [][NextSweepRace]_vars

(* --------- save_oauth_tokens and get_oauth_tokens interleaved ---------- *)
(* save_oauth_tokens runs DELETE and INSERT in one transaction (psycopg2    *)
(* opens it at the first statement, conn.commit() ends it): other           *)
(* connections see neither statement before the commit.  A DELETE acts on   *)
(* the rows committed when it starts.                                       *)

\* The rows of a user.
RowsOfUser(ot, uid) == {ot[i] : i \in {j \in 1..Len(ot) : ot[j].user_id = uid}}

\* What get_oauth_tokens may fetch: created_at is the start time of the
\* inserting transaction, so with several rows of the user ORDER BY
\* created_at DESC LIMIT 1 may give any of them.
ReadableRows(ot, uid) ==
    IF RowsOfUser(ot, uid) = {} THEN {None}
    ELSE {<<r>> : r \in RowsOfUser(ot, uid)}

\* A DELETE whose effect other connections see at once.
DeleteSeenAtOnce(ot, uid) == SelectSeq(ot, LAMBDA r : r.user_id # uid)

\* The committed table after the DELETE of save_oauth_tokens has run and
\* before conn.commit(): the DELETE is not committed, the rows are there.
DeleteUncommitted(ot, uid) == ot

\* save_oauth_tokens(uid, credentials), first statement, for the credentials
\* a code exchange has just returned: DELETE FROM oauth_tokens WHERE user_id.
SaveDelete(c, uid) ==
    /\ pc[c] = "idle"
    /\ \E resp \in {x \in ProviderResponses(minted) : x.ok} :
        /\ loc' = [loc EXCEPT ![c] = [NoLocals EXCEPT
               !.op = "save",
               !.sel = <<[user_id |-> uid,
                          credentials |-> <<ExchangeCode(minted, now, resp)>>,
                          deleted |-> RowsOfUser(oauth_tokens, uid)]>>]]
        /\ minted' = minted + 1
    /\ oauth_tokens' = DeleteUncommitted(oauth_tokens, uid)
    /\ pc' = [pc EXCEPT ![c] = "save_deleted"]
    /\ UNCHANGED <<now, users, auth_tokens, uuids, dbFaults, last, consumed,
                   sent>>

\* save_oauth_tokens, INSERT INTO oauth_tokens ... and conn.commit(): the
\* rows the DELETE hit go (if another commit has not removed them already)
\* and the new row appears, in one step.
SaveInsert(c) ==
    /\ pc[c] = "save_deleted"
    /\ LET my == loc[c].sel[1]
       IN  oauth_tokens' =
               Append(SelectSeq(oauth_tokens, LAMBDA r : r \notin my.deleted),
                      RowOfCredentials(my.user_id, my.credentials[1]))
    /\ loc' = [loc EXCEPT ![c].ret = <<TRUE>>]
    /\ pc' = [pc EXCEPT ![c] = "returned"]
    /\ UNCHANGED <<now, users, auth_tokens, uuids, minted, dbFaults, last,
                   consumed, sent>>

\* get_oauth_tokens(uid): one SELECT on the committed rows.
StoreRead(c, uid) ==
    /\ pc[c] = "idle"
    /\ \E row \in ReadableRows(oauth_tokens, uid) :
        loc' = [loc EXCEPT ![c] = [NoLocals EXCEPT
               !.op = "read",
               !.sel = <<[user_id |-> uid, credentials |-> None,
                          deleted |-> {}]>>,
               !.ret = row]]
    /\ pc' = [pc EXCEPT ![c] = "returned"]
    /\ UNCHANGED <<now, users, oauth_tokens, auth_tokens, uuids, minted,
                   dbFaults, last, consumed, sent>>

NextStore ==
    \/ \E sid \in Sessions : WebVisit(sid)
    \/ \E uid \in WebUserIds : WebCallback(uid)
    \/ \E c \in Callers, uid \in WebUserIds : SaveDelete(c, uid)
    \/ \E c \in Callers : SaveInsert(c)
    \/ \E c \in Callers, uid \in WebUserIds : StoreRead(c, uid)

\* Concurrent writers and readers of one user's credential row.
SpecStore == Init /\ [][NextStore]_vars

(* ------- get_credentials interleaved with a save or a logout ----------- *)
(* GmailWebAuth.get_credentials reads the row, asks the provider for a      *)
(* refresh and writes the new access token and expiry in three separate     *)
(* steps, each store call on a connection and transaction of its own.       *)

\* What the token endpoint may answer to a refresh in flight: the mint has
\* one token more for it than for code exchanges, so that two exchanges do
\* not use it up.
RefreshResponses(n) ==
    {[ok |-> FALSE, lifetime |-> MaxLifetime, offline |-> FALSE]}
    \cup (IF n < MaxMinted + 1
          THEN [ok : {TRUE}, lifetime : Lifetimes, offline : {FALSE}]
          ELSE {})

\* get_credentials, "token_data = self.db.get_oauth_tokens(self.user_id)"
CredentialsRead(c, uid) ==
    /\ pc[c] = "idle"
    /\ loc' = [loc EXCEPT ![c] = [NoLocals EXCEPT
           !.op = "refresh",
           !.sel = <<[user_id |-> uid,
                      row |-> GetOauthTokens(oauth_tokens, uid)]>>]]
    /\ pc' = [pc EXCEPT ![c] = "credentials_read"]
    /\ UNCHANGED <<now, users, oauth_tokens, auth_tokens, uuids, minted,
                   dbFaults, last, consumed, sent>>

\* get_credentials, from "if not token_data" to the return: the credential
\* is built from the row read earlier; a refresh writes to the table as it
\* is now.
CredentialsRefresh(c) ==
    /\ pc[c] = "credentials_read"
    /\ LET my == loc[c].sel[1]
       IN  IF my.row = None
           THEN /\ loc' = [loc EXCEPT ![c].ret = None]
                /\ last' = Returned("web_credentials", Bogus, None,
                                    my.user_id, FALSE)
                /\ UNCHANGED <<oauth_tokens, minted>>
           ELSE \E resp \in RefreshResponses(minted) :
                    LET r == RefreshIfNeeded(oauth_tokens, my.user_id,
                                             WebCredentialsOfRow(my.row[1]),
                                             minted, now, resp, TRUE)
                    IN  /\ oauth_tokens' = r.oauth_tokens
                        /\ minted' = r.minted
                        /\ loc' = [loc EXCEPT ![c].ret = r.ret]
                        /\ last' = Returned("web_credentials", Bogus, None,
                                            my.user_id, r.ret # None)
    /\ pc' = [pc EXCEPT ![c] = "returned"]
    /\ UNCHANGED <<now, users, auth_tokens, uuids, dbFaults, consumed, sent>>

NextRefreshRace ==
    \/ Tick
    \/ \E sid \in Sessions : WebVisit(sid)
    \/ \E uid \in WebUserIds : WebCallback(uid)
    \/ \E uid \in WebUserIds : WebLogout(uid)
    \/ \E uid \in WebUserIds : CredentialsRead(1, uid)
    \/ CredentialsRefresh(1)

\* A get_credentials call with code exchanges and logouts of the same user
\* running between its steps.
SpecRefreshRace == Init /\ [][NextRefreshRace]_vars

(* ------------------------ an unreliable store -------------------------- *)

\* The database becomes unreachable or reachable again: while dbFaults
\* holds, any psycopg2.connect() or statement may raise.
StoreFlips ==
    /\ dbFaults' = ~dbFaults
    /\ UNCHANGED <<now, users, oauth_tokens, auth_tokens, uuids, minted, pc,
                   loc, last, consumed, sent>>

NextWebFaults ==
    \/ StoreFlips
    \/ Tick
    \/ \E sid \in Sessions : WebVisit(sid)
    \/ \E uid \in WebUserIds : WebCallback(uid)
    \/ \E uid \in WebUserIds : WebCredentials(uid)
    \/ \E uid \in WebUserIds : WebLogout(uid)

\* The browser-session flow on a store that may fail.
SpecWebFaults == Init /\ [][NextWebFaults]_vars

(* --------------------- GmailService provider calls --------------------- *)
(* One caller is one GmailService(GmailWebAuth(user_id)) object on which    *)
(* authenticate(user_id) and then get_messages / send_message /             *)
(* list_contacts is called.  A call that retries calls itself.              *)

\* HTTP statuses of the provider's answer to execute(): success,
\* unauthorized, any other error.
Statuses == {200, 401, 500}

\* The locals of a GmailService call: self.user_id and the number of times
\* the body of the call has run execute().
ServiceLocals(uid, attempts) == <<[user_id |-> uid, attempts |-> attempts]>>

\* GmailService.authenticate(user_id) as the caller makes it before the
\* call: get_credentials(), then build() if creds and creds.valid.
ApiAuthenticate(c, uid) ==
    /\ pc[c] = "idle"
    /\ \E resp \in ProviderResponses(minted) :
        LET r == WebGetCredentials(uid, resp, TRUE, TRUE)
            built == r.ret # None /\ CredValid(r.ret[1], now)
        IN  /\ oauth_tokens' = r.oauth_tokens
            /\ minted' = r.minted
            /\ loc' = [loc EXCEPT ![c] = [NoLocals EXCEPT
                   !.op = "service", !.sel = ServiceLocals(uid, 0)]]
            /\ pc' = [pc EXCEPT ![c] = IF built THEN "authenticated"
                                       ELSE "returned"]
    /\ UNCHANGED <<now, users, auth_tokens, uuids, dbFaults, last, consumed,
                   sent>>

\* The body of get_messages / send_message / list_contacts up to the
\* provider's answer: the result on 200, the except HttpError branch on 401,
\* [] or None on any other error.  MaxAttempts stands for the interpreter's
\* recursion limit.
ApiAttempt(c) ==
    /\ pc[c] = "authenticated"
    /\ loc[c].sel[1].attempts < MaxAttempts
    /\ \E status \in Statuses :
        /\ loc' = [loc EXCEPT
               ![c].sel = ServiceLocals(loc[c].sel[1].user_id,
                                        loc[c].sel[1].attempts + 1),
               ![c].ret = IF status = 200 THEN <<TRUE>> ELSE None]
        /\ pc' = [pc EXCEPT ![c] = IF status = 401 THEN "unauthorized"
                                   ELSE "returned"]
    /\ UNCHANGED <<now, users, oauth_tokens, auth_tokens, uuids, minted,
                   dbFaults, last, consumed, sent>>

\* if error.resp.status == 401: if self.authenticate(self.user_id):
\* return self.get_messages(query, max_results); else return [].
ApiReauthenticate(c) ==
    /\ pc[c] = "unauthorized"
    /\ \E resp \in ProviderResponses(minted) :
        LET r == WebGetCredentials(loc[c].sel[1].user_id, resp, TRUE, TRUE)
            built == r.ret # None /\ CredValid(r.ret[1], now)
        IN  /\ oauth_tokens' = r.oauth_tokens
            /\ minted' = r.minted
            /\ pc' = [pc EXCEPT ![c] = IF built THEN "authenticated"
                                       ELSE "returned"]
    /\ UNCHANGED <<now, users, auth_tokens, uuids, dbFaults, loc, last,
                   consumed, sent>>

NextApi ==
    \/ Tick
    \/ \E sid \in Sessions : WebVisit(sid)
    \/ \E uid \in WebUserIds : WebCallback(uid)
    \/ \E c \in Callers, uid \in WebUserIds : ApiAuthenticate(c, uid)
    \/ \E c \in Callers : ApiAttempt(c)
    \/ \E c \in Callers : ApiReauthenticate(c)

\* Provider API calls made with the credentials of a browser session.
SpecApi == Init /\ [][NextApi]_vars

(* ---------- GmailService on the phone-linked credential broker --------- *)
(* One caller is one GmailService(PhoneBasedGmailAuth()) object.             *)

\* The fields of the object: self.user_id, self.auth.current_user_id, the
\* number of execute() calls of the running method, and as history the
\* arguments of the caller's authenticate and the user whose credential row
\* the last get_credentials read.  A user id is None or <<id>>.
PhoneServiceLocals(uid, cur, attempts, call, looked) ==
    <<[user_id |-> uid, current_user_id |-> cur, attempts |-> attempts,
       call |-> call, looked |-> looked]>>

\* PhoneBasedGmailAuth.get_credentials(phone_number=None) on an object whose
\* current_user_id is cur: the user is the phone's, else cur, else there is
\* none.
GetCredentialsOf(phone, cur, resp) ==
    IF phone # None
    THEN LET u == SelectUserByPhone(users, phone)
             r == PhoneGetCredentials(phone, resp, TRUE, TRUE, TRUE)
         IN  [looked |-> IF u = None THEN <<Len(users) + 1>>
                         ELSE <<u[1].id>>] @@ r
    ELSE IF cur # None
    THEN LET row == GetOauthTokens(oauth_tokens, cur[1])
         IN  IF row = None
             THEN [looked |-> cur, users |-> users,
                   oauth_tokens |-> oauth_tokens, minted |-> minted,
                   ret |-> None, refreshed |-> FALSE]
             ELSE [looked |-> cur, users |-> users] @@
                  RefreshIfNeeded(oauth_tokens, cur[1],
                                  TokensToCredentials(row[1]),
                                  minted, now, resp, TRUE)
    ELSE [looked |-> None, users |-> users, oauth_tokens |-> oauth_tokens,
          minted |-> minted, ret |-> None, refreshed |-> FALSE]

\* GmailService.authenticate(user_id, phone_number) on the object svc: a
\* user_id that is given is kept and passed to set_user_id; the credentials
\* asked for are the phone number's if one is given.
Authenticate(svc, uid, phone, resp) ==
    LET user_id == IF uid # None THEN uid ELSE svc.user_id
        cur == IF uid # None THEN uid ELSE svc.current_user_id
        r == GetCredentialsOf(phone, cur, resp)
    IN  [user_id |-> user_id, current_user_id |-> cur, looked |-> r.looked,
         users |-> r.users, oauth_tokens |-> r.oauth_tokens,
         minted |-> r.minted,
         ret |-> r.ret # None /\ CredValid(r.ret[1], now)]

\* The caller's authenticate(user_id=uid) or authenticate(phone_number=phone)
\* on a new object or on one it has used before.
ServiceAuthenticate(c, uid, phone) ==
    /\ pc[c] \in {"idle", "phone_authenticated"}
    /\ uid = None \/ phone = None
    /\ \E resp \in ProviderResponses(minted) :
        LET svc == IF pc[c] = "idle"
                   THEN PhoneServiceLocals(None, None, 0, None, None)[1]
                   ELSE loc[c].sel[1]
            r == Authenticate(svc, uid, phone, resp)
        IN  /\ users' = r.users
            /\ oauth_tokens' = r.oauth_tokens
            /\ minted' = r.minted
            /\ loc' = [loc EXCEPT ![c] = [NoLocals EXCEPT
                   !.op = "phone_service",
                   !.sel = PhoneServiceLocals(
                               r.user_id, r.current_user_id, 0,
                               <<[user_id |-> uid, phone_number |-> phone]>>,
                               r.looked)]]
            /\ pc' = [pc EXCEPT ![c] = IF r.ret THEN "phone_authenticated"
                                       ELSE "idle"]
    /\ UNCHANGED <<now, auth_tokens, uuids, dbFaults, last, consumed, sent>>

\* get_messages / send_message / list_contacts up to the provider's answer.
ServiceAttempt(c) ==
    /\ pc[c] = "phone_authenticated"
    /\ loc[c].sel[1].attempts < MaxAttempts
    /\ \E status \in Statuses :
        /\ loc' = [loc EXCEPT
               ![c].sel[1].attempts = @ + 1,
               ![c].ret = IF status = 200 THEN <<TRUE>> ELSE None]
        /\ pc' = [pc EXCEPT ![c] = IF status = 401 THEN "phone_unauthorized"
                                   ELSE "phone_authenticated"]
    /\ UNCHANGED <<now, users, oauth_tokens, auth_tokens, uuids, minted,
                   dbFaults, last, consumed, sent>>

\* if error.resp.status == 401: if self.authenticate(self.user_id): retry;
\* else return [].  Either way self.service stays built, and the method (on
\* return, the caller) may run execute() again.
ServiceReauthenticate(c) ==
    /\ pc[c] = "phone_unauthorized"
    /\ \E resp \in ProviderResponses(minted) :
        LET svc == loc[c].sel[1]
            r == Authenticate(svc, svc.user_id, None, resp)
        IN  /\ users' = r.users
            /\ oauth_tokens' = r.oauth_tokens
            /\ minted' = r.minted
            /\ loc' = [loc EXCEPT
                   ![c].op = "phone_service_retry",
                   ![c].sel = PhoneServiceLocals(
                                  r.user_id, r.current_user_id, svc.attempts,
                                  svc.call, r.looked),
                   ![c].raised = ~r.ret]
            /\ pc' = [pc EXCEPT ![c] = "phone_authenticated"]
    /\ UNCHANGED <<now, auth_tokens, uuids, dbFaults, last, consumed, sent>>

NextPhoneApi ==
    \/ StartAuthentication(P1, MaxLinks)
    \/ \E tok \in LinkIds : tok = uuids /\ Complete(tok)
    \/ \E uid \in 1..Len(users) : ServiceAuthenticate(1, <<uid>>, None)
    \/ \E phone \in Phones : ServiceAuthenticate(1, None, phone)
    \/ ServiceAttempt(1)
    \/ ServiceReauthenticate(1)

\* Provider API calls made with the credentials of a phone number.
SpecPhoneApi == Init /\ [][NextPhoneApi]_vars

(* ---------------------- the users table's methods ---------------------- *)

\* Phone strings as callers pass them on: Twilio's From field without the
\* whatsapp: prefix, or a number a voice handler was given, written with or
\* without the plus sign and with or without a space.
PhoneStrings ==
    Phones \cup {<<"1">>, <<"+", " ", "1">>, <<"2">>, <<"+", " ", "2">>}

\* Database.get_or_create_user_by_phone(phone_number)
UserByPhone(phone) ==
    /\ \E ok \in DbOutcomes :
        LET r == GetOrCreateUserByPhone(users, phone, ok)
        IN  /\ users' = r.users
            /\ last' = Returned("user_by_phone", Bogus, phone,
                                IF r.user = None THEN 0 ELSE r.user[1].id,
                                ~r.raised)
    /\ UNCHANGED <<now, oauth_tokens, auth_tokens, uuids, minted, dbFaults,
                   pc, loc, consumed, sent>>

NextUsers ==
    \/ \E sid \in Sessions : WebVisit(sid)
    \/ \E phone \in PhoneStrings : UserByPhone(phone)

\* Browser sessions and phone strings get their user rows.
SpecUsers == Init /\ [][NextUsers]_vars

(* ------------------- the auth_tokens table's methods ------------------- *)

\* Database.save_auth_token(auth_token, phone_number), called with a token
\* string of the caller's choice: one the table holds already takes the ON
\* CONFLICT branch.
SaveAuthTokenCall(tok, phone) ==
    /\ \E ok \in DbOutcomes :
        LET s == SaveAuthToken(auth_tokens, tok, phone, now, ok)
        IN  /\ auth_tokens' = s.auth_tokens
            /\ last' = Returned("save_auth_token", tok, phone, 0, s.ret)
    /\ uuids' = IF tok > uuids THEN tok ELSE uuids
    /\ UNCHANGED <<now, users, oauth_tokens, minted, dbFaults, pc, loc,
                   consumed, sent>>

NextTokenStore ==
    \/ Tick
    \/ \E tok \in TokenIds, phone \in Phones : SaveAuthTokenCall(tok, phone)
    \/ \E tok \in TokenIds : Peek(tok)
    \/ \E tok \in TokenIds : Consume(tok)
    \/ Sweep

\* The methods of Database on auth_tokens, called in any order.
SpecTokenStore == Init /\ [][NextTokenStore]_vars

(* ------------------- the scopes of a code exchange --------------------- *)

\* The scope names of SCOPES.
ScopeNames == {SCOPES[i] : i \in 1..Len(SCOPES)}

\* The scopes flow.credentials may carry: a list, not empty, of scope names.
GrantedScopes ==
    UNION {[1..n -> ScopeNames] : n \in 1..MaxScopes}

\* exchange_code_for_token where flow.credentials carries the scopes given:
\* the scopes are kept in last where other handlers keep a phone number.
GrantedCallback(uid, scopes) ==
    /\ \E resp \in {q \in ProviderResponses(minted) : q.ok} :
        LET cred == [ExchangeCode(minted, now, resp) EXCEPT !.scopes = scopes]
            s == SaveOauthTokens(oauth_tokens, uid, cred, TRUE)
        IN  /\ oauth_tokens' = s.oauth_tokens
            /\ minted' = minted + 1
            /\ last' = Returned("granted", Bogus, scopes, uid, s.ret)
    /\ UNCHANGED <<now, users, auth_tokens, uuids, dbFaults, pc, loc,
                   consumed, sent>>

NextScopes ==
    \/ \E sid \in Sessions : WebVisit(sid)
    \/ \E uid \in WebUserIds, scopes \in GrantedScopes :
          GrantedCallback(uid, scopes)
    \/ \E uid \in WebUserIds : WebCredentials(uid)

\* Code exchanges that grant any list of scopes, and get_credentials.
SpecScopes == Init /\ [][NextScopes]_vars

(* ------------------------ the /auth/gmail route ------------------------ *)

\* A request to /auth/gmail.
GmailPhoneAuthRequest ==
    /\ \E phone_token \in {None} \cup {<<tok>> : tok \in TokenIds},
          ok \in DbOutcomes :
        LET r == GmailPhoneAuth(phone_token, ok)
            tok == IF phone_token = None THEN Bogus ELSE phone_token[1]
        IN  /\ auth_tokens' = r.auth_tokens
            /\ users' = r.users
            /\ oauth_tokens' = r.oauth_tokens
            /\ last' = Rendered("phone_auth", tok, r.page, 0, r.url # None)
    /\ UNCHANGED <<now, uuids, minted, dbFaults, pc, loc, consumed, sent>>

NextRoute ==
    \/ Tick
    \/ \E phone \in Phones : StartAuthentication(phone, MaxTokens)
    \/ GmailPhoneAuthRequest
    \/ \E tok \in TokenIds : Consume(tok)

\* Links are issued, opened in a browser and consumed.
SpecRoute == Init /\ [][NextRoute]_vars

(* ---------------------- the WhatsApp entry point ----------------------- *)

\* PhoneBasedGmailAuth.initiate_phone_auth(twilio_request_data); cap bounds
\* the links issued in a run.
InitiateAuth(phone, cap) ==
    /\ uuids < cap
    /\ \E okU, okG, okS \in DbOutcomes, okM \in BOOLEAN :
        LET r == InitiatePhoneAuth(phone, uuids + 1, okU, okG, okS, okM)
        IN  /\ users' = r.users
            /\ auth_tokens' = r.auth_tokens
            /\ sent' = r.sent
            /\ uuids' = IF r.issued THEN uuids + 1 ELSE uuids
            /\ last' = Returned("initiate",
                                IF r.issued THEN uuids + 1 ELSE Bogus,
                                phone, 0, r.ret)
    /\ UNCHANGED <<now, oauth_tokens, minted, dbFaults, pc, loc, consumed>>

NextEntry ==
    \/ Tick
    \/ \E phone \in Phones : InitiateAuth(phone, MaxTokens)
    \/ \E tok \in LinkIds : tok = uuids /\ Complete(tok)
    \/ \E phone \in Phones : PhoneCredentials(phone)

\* Phones write in on WhatsApp, follow the link sent last and ask for their
\* credential.
SpecEntry == Init /\ [][NextEntry]_vars

(* ---------------- the phone flow on an unreliable store ---------------- *)

\* MessagingService.send_auth_link_sms(phone_number); cap bounds the links
\* issued in a run.
SmsAuthLink(phone, cap) ==
    /\ uuids < cap
    /\ \E okS \in DbOutcomes, configured, okM \in BOOLEAN :
        LET r == SendAuthLinkSms(phone, uuids + 1, configured, okS, okM)
        IN  /\ auth_tokens' = r.auth_tokens
            /\ sent' = r.sent
            /\ uuids' = IF r.issued THEN uuids + 1 ELSE uuids
            /\ last' = Returned("sms_link",
                                IF r.issued THEN uuids + 1 ELSE Bogus,
                                phone, 0, r.ret)
    /\ UNCHANGED <<now, users, oauth_tokens, minted, dbFaults, pc, loc,
                   consumed>>

NextLinkFaults ==
    \/ StoreFlips
    \/ Tick
    \/ InitiateAuth(P1, MaxTokens)
    \/ SmsAuthLink(P1, MaxTokens)

\* Links are asked for by WhatsApp and by SMS while the store's connections
\* may fail.
SpecLinkFaults == Init /\ [][NextLinkFaults]_vars

NextPhoneFaults ==
    \/ StoreFlips
    \/ InitiateAuth(P1, MaxTokens)
    \/ \E tok \in LinkIds : Complete(tok)

\* One phone writes in and follows the links sent to it while the store's
\* connections may fail.
SpecPhoneFaults == Init /\ [][NextPhoneFaults]_vars

(* ------------------- both brokers beside the links --------------------- *)

NextBroker ==
    \/ Tick
    \/ StartAuthentication(P1, MaxLinks)
    \/ \E tok \in LinkIds : tok = uuids /\ Complete(tok)
    \/ PhoneCredentials(P1)
    \/ \E sid \in Sessions : WebVisit(sid)
    \/ \E uid \in WebUserIds : WebCallback(uid)
    \/ \E uid \in WebUserIds : WebCredentials(uid)

\* One phone and the browser sessions use the service side by side; the
\* phone follows the link issued to it last.
SpecBroker == Init /\ [][NextBroker]_vars

(* ------------------------------ claims --------------------------------- *)

\* The phone check_auth_token would return in this state.
PeekResult(tok) == CheckAuthToken(auth_tokens, tok, now, TRUE)

\* The callers that have returned from verify_auth_token(tok).
Verifiers(tok) ==
    {c \in Callers : /\ pc[c] = "returned"
                     /\ loc[c].op = "verify"
                     /\ loc[c].tok = tok}

\* C1: when every one of the N concurrent callers has returned from
\* consume(t) for an issued token t, exactly one of them was given the phone
\* number if the token was consumed at all, and the others were given absent.
C1_ExactlyOneConsumer ==
    \A tok \in 1..uuids :
        Verifiers(tok) = Callers =>
            LET winners == {c \in Callers : loc[c].ret # None}
                sel == SelectAuthToken(auth_tokens, tok)
            IN  IF sel # None /\ sel[1].used
                THEN Cardinality(winners) = 1
                ELSE winners = {}

\* C4: at most one link token per phone number is valid (peek accepts it):
\* a second issue for the phone invalidates the first.
C4_OneValidTokenPerPhone ==
    \A phone \in Phones :
        Cardinality({tok \in TokenIds : PeekResult(tok) = phone}) <= 1

\* The callers that have returned from a first-contact call for a key.
Contacts(op, key) ==
    {c \in Callers : /\ pc[c] = "returned"
                     /\ loc[c].op = op
                     /\ loc[c].phone = key}

\* C10: concurrent get_or_create calls with the same key never fail with a
\* duplicate-key error, all return the same user, and one row has the key.
C10_FirstContactIdempotent ==
    /\ \A c \in Callers :
           pc[c] = "returned" /\ loc[c].op \in {"phone_user", "session_user"}
               => ~loc[c].raised
    /\ \A op \in {"phone_user", "session_user"}, key \in Phones \cup Sessions :
           \A c, d \in Contacts(op, key) : loc[c].ret = loc[d].ret
    /\ \A phone \in Phones :
           Len(SelectSeq(users, LAMBDA r : r.phone_number = phone)) <= 1

\* The stored row of a link token, if any.
RowOf(tok) == SelectAuthToken(auth_tokens, tok)

\* C2: in a sequential run, issue(phone) stores the phone under the token it
\* returns and no later operation changes it; the first consume of the token,
\* made before its expiry, returns that phone; every later consume of it
\* returns absent, whatever peeks, sweeps and other issues come in between.
C2_ConsumeSucceedsExactlyOnce ==
    [][/\ last'.op = "issue" /\ last'.ok =>
              /\ SelectAuthToken(auth_tokens', last'.tok) # None
              /\ SelectAuthToken(auth_tokens', last'.tok)[1].phone_number
                     = last'.phone
       /\ \A r \in auth_tokens : \A q \in auth_tokens' :
              q.auth_token = r.auth_token
                  => q.phone_number = r.phone_number
       /\ last'.op = "consume" /\ last'.tok \in 1..uuids =>
              /\ last'.tok \notin consumed
                     /\ RowOf(last'.tok) # None
                     /\ now < RowOf(last'.tok)[1].expires_at
                 => /\ last'.ok
                    /\ last'.phone = RowOf(last'.tok)[1].phone_number
              /\ last'.tok \in consumed => ~last'.ok /\ last'.phone = None
      ]_vars

\* C2's case: a consume of a used token is refused before the token's expiry,
\* that is, a second consume after the one that succeeded.
C2_Witness ==
    /\ last.op = "consume"
    /\ ~last.ok
    /\ RowOf(last.tok) # None
    /\ RowOf(last.tok)[1].used
    /\ now <= RowOf(last.tok)[1].expires_at

\* C5: a peek or a consume of a token made after the token's expiry
\* timestamp is refused, whether the token is used or not, and a refused
\* consume leaves the table of link tokens as it was.
C5_ExpiredTokenRejected ==
    [][last'.op \in {"peek", "consume"} =>
          /\ RowOf(last'.tok) # None
                 /\ RowOf(last'.tok)[1].expires_at < now
             => ~last'.ok /\ last'.phone = None
          /\ ~last'.ok => auth_tokens' = auth_tokens
      ]_vars

\* C5's case: a consume of a token that was never used is refused after the
\* token's expiry.
C5_Witness ==
    /\ last.op = "consume"
    /\ ~last.ok
    /\ RowOf(last.tok) # None
    /\ ~RowOf(last.tok)[1].used
    /\ RowOf(last.tok)[1].expires_at < now

\* The expiry the store records for an access token: the time the provider
\* gave the token when it was minted.
ExpiryOfToken(ot, token) ==
    LET hit == SelectSeq(ot, LAMBDA r : r.access_token = token)
    IN  IF hit = <<>> THEN None ELSE hit[1].token_expiry

\* The stored credential row of a phone number's user, if any.
StoredRowOfPhone(phone) ==
    LET u == SelectUserByPhone(users, phone)
    IN  IF u = None THEN None ELSE GetOauthTokens(oauth_tokens, u[1].id)

\* C3: whatever the provider would answer, a credential that get_credentials
\* returns for a phone number carries an access token whose expiry is later
\* than now; otherwise the call returns None.
C3_NeverReturnsExpired ==
    \A phone \in Phones : \A resp \in ProviderResponses(minted) :
        LET r == PhoneGetCredentials(phone, resp, TRUE, TRUE, TRUE)
        IN  r.ret # None =>
                LET expiry == ExpiryOfToken(r.oauth_tokens, r.ret[1].token)
                IN  expiry # None /\ expiry[1] > now

\* C8: when the stored credential of a phone number has expired and has a
\* refresh token, and the provider accepts the refresh, get_credentials
\* returns a refreshed credential with a strictly later expiry, and the store
\* holds the new access token and expiry.
C8_ExpiredCredentialRefreshed ==
    \A phone \in Phones : \A resp \in ProviderResponses(minted) :
        LET row == StoredRowOfPhone(phone)
            r == PhoneGetCredentials(phone, resp, TRUE, TRUE, TRUE)
        IN  /\ row # None
            /\ row[1].token_expiry # None
            /\ row[1].token_expiry[1] <= now
            /\ row[1].refresh_token # None
            /\ resp.ok
            => /\ r.ret # None
               /\ r.ret[1].token # row[1].access_token
               /\ r.ret[1].expiry # None
               /\ r.ret[1].expiry[1] > row[1].token_expiry[1]
               /\ LET u == SelectUserByPhone(users, phone)
                      stored == GetOauthTokens(r.oauth_tokens, u[1].id)
                  IN  /\ stored # None
                      /\ stored[1].access_token = r.ret[1].token
                      /\ stored[1].token_expiry = r.ret[1].expiry

\* A link token that complete_authentication must refuse: no row, or a row
\* past its expiry, or a row already used.
Unusable(tok) ==
    \/ RowOf(tok) = None
    \/ RowOf(tok)[1].expires_at < now
    \/ RowOf(tok)[1].used

\* C6: start_authentication(phone) returns a token whose peek gives the
\* phone; completing with that token, while it is usable and the provider
\* exchanges the code, succeeds for that phone; and get_credentials for the
\* phone, called next, returns the credential just exchanged, whose expiry
\* is later than now.
C6_FlowReachesCredential ==
    /\ [][/\ last'.op = "issue" /\ last'.ok =>
                  CheckAuthToken(auth_tokens', last'.tok, now', TRUE)
                      = last'.phone
          /\ (/\ last'.op = "complete"
              /\ ~Unusable(last'.tok)
              /\ minted' = minted + 1)
                 => /\ last'.ok
                    /\ last'.phone = RowOf(last'.tok)[1].phone_number
         ]_vars
    /\ [](last.op = "complete" /\ last.ok =>
              \A resp \in ProviderResponses(minted) :
                  LET g == PhoneGetCredentials(last.phone, resp,
                                               TRUE, TRUE, TRUE)
                  IN  /\ g.ret # None
                      /\ g.ret[1].token = minted
                      /\ ExpiryOfToken(g.oauth_tokens, minted)[1] > now)

\* C6's case: the flow was completed for a phone number that had no user and
\* no credential, and get_credentials then returned a credential for it.
C6_Witness ==
    /\ last.op = "phone_credentials"
    /\ last.ok
    /\ Len(users) = 1
    /\ minted = 1
    /\ RowOf(1) # None
    /\ RowOf(1)[1].used
    /\ RowOf(1)[1].phone_number = last.phone

\* C7: complete_authentication with an absent, expired or used link token
\* fails before any code is exchanged and leaves users and stored
\* credentials as they were; a used token stays used, so a second complete
\* with the token of a successful one fails.
C7_UnusableTokenFailsEarly ==
    /\ [](\A tok \in TokenIds : \A resp \in ProviderResponses(minted) :
              Unusable(tok) =>
                  LET r == CompleteOauthFlow(tok, resp, TRUE, TRUE, TRUE)
                  IN  /\ ~r.ret
                      /\ ~r.exchanged
                      /\ r.minted = minted
                      /\ r.oauth_tokens = oauth_tokens
                      /\ r.users = users)
    /\ [][/\ last'.op = "complete" /\ Unusable(last'.tok)
              => /\ ~last'.ok
                 /\ minted' = minted
                 /\ oauth_tokens' = oauth_tokens
                 /\ users' = users
          /\ last'.op = "complete" /\ last'.ok
              => /\ SelectAuthToken(auth_tokens', last'.tok) # None
                 /\ SelectAuthToken(auth_tokens', last'.tok)[1].used
          /\ \A r \in auth_tokens : \A q \in auth_tokens' :
                 r.used /\ q.auth_token = r.auth_token => q.used
         ]_vars

\* C7's case: a complete with a used, unexpired token was refused while a
\* credential obtained with that token is stored.
C7_Witness ==
    /\ last.op = "complete"
    /\ ~last.ok
    /\ RowOf(last.tok) # None
    /\ RowOf(last.tok)[1].used
    /\ RowOf(last.tok)[1].expires_at >= now
    /\ oauth_tokens # <<>>

\* No credential row is stored for the user.
NoCredentials(uid) == GetOauthTokens(oauth_tokens, uid) = None

\* get_credentials returns None for the user whatever the provider answers.
NeedsAuth(uid) ==
    \A resp \in ProviderResponses(minted) :
        WebGetCredentials(uid, resp, TRUE, TRUE).ret = None

\* C9: once logout has returned for a user, no credential is stored for the
\* user; a user without a stored credential gets None from get_credentials;
\* and only a successful code exchange for that user stores one again.
C9_LoggedOutUntilReauth ==
    /\ [](last.op = "logout" /\ last.ok => NoCredentials(last.uid))
    /\ [](\A uid \in WebUserIds : NoCredentials(uid) => NeedsAuth(uid))
    /\ [][\A uid \in WebUserIds :
              NoCredentials(uid) /\ ~NoCredentials(uid)'
                  => /\ last'.op = "web_complete"
                     /\ last'.ok
                     /\ last'.uid = uid
         ]_vars

\* C9's case: a user who had exchanged a code has logged out.
C9_Witness ==
    /\ last.op = "logout"
    /\ last.ok
    /\ minted > 0
    /\ NoCredentials(last.uid)

\* C11: the store never holds more than one credential row for a user, also
\* after concurrent save_oauth_tokens calls for the user.
C11_OneCredentialRowPerUser ==
    \A uid \in 1..Len(users) :
        Cardinality({i \in 1..Len(oauth_tokens) :
                         oauth_tokens[i].user_id = uid}) <= 1

\* The rows a save_oauth_tokens call can write for a user: every field from
\* the one credential of one code exchange.
WholeRows(uid) ==
    {RowOfCredentials(uid, ExchangeCode(n, t, resp)) :
         n \in 0..(MaxMinted - 1), t \in 0..MaxTime,
         resp \in {x \in ProviderResponses(0) : x.ok}}

\* The callers that run get_oauth_tokens, and the user each reads.
Readers == {c \in Callers : loc[c].op = "read"}
UserRead(c) == loc[c].sel[1].user_id

\* C12: while save_oauth_tokens calls for a user are in flight, the user's
\* committed rows never vanish between a DELETE and its INSERT; a reader that
\* returns gets None only if the user had no row, and otherwise a row written
\* whole by a save that has committed, never the row of a save still in
\* flight.
C12_ReaderSeesOldOrNew ==
    /\ [][\A uid \in WebUserIds :
              RowsOfUser(oauth_tokens, uid) # {}
                  => RowsOfUser(oauth_tokens', uid) # {}]_vars
    /\ [][\A c \in Callers :
              pc[c] = "idle" /\ pc'[c] = "returned" /\ loc'[c].op = "read"
              => LET uid == loc'[c].sel[1].user_id
                     got == loc'[c].ret
                 IN  /\ got = None => RowsOfUser(oauth_tokens, uid) = {}
                     /\ got = None =>
                            \A d \in Callers :
                                ~(/\ pc[d] = "returned"
                                  /\ loc[d].op = "save"
                                  /\ loc[d].sel[1].user_id = uid)
                     /\ got # None =>
                            /\ got[1] \in WholeRows(uid)
                            /\ \A d \in Callers :
                                   pc[d] = "save_deleted" =>
                                       got[1] # RowOfCredentials(
                                                    loc[d].sel[1].user_id,
                                                    loc[d].sel[1].credentials[1])
         ]_vars

\* C12's case: a reader was given the old credential of a user while a save
\* for the user had run its DELETE of that row and not yet its INSERT.
C12_Witness ==
    \E c \in Readers : \E d \in Callers :
        /\ pc[c] = "returned"
        /\ loc[c].ret # None
        /\ pc[d] = "save_deleted"
        /\ loc[d].sel[1].user_id = UserRead(c)
        /\ loc[c].ret[1] \in loc[d].sel[1].deleted

\* C13: in every state, a callback whose state parameter differs from the
\* state kept for the attempt fails, verifies (consumes) no link token,
\* exchanges no code and leaves every table as it was; and a callback that
\* rendered the invalid-state page changed nothing.
C13_StateMismatchRefused ==
    /\ [](\A code \in Codes, state \in States, expected \in ExpectedStates,
             resp \in ProviderResponses(minted) :
              state # expected =>
                  /\ \A tok \in LinkIds :
                         LET r == GmailPhoneCallback(code, state, <<tok>>,
                                                     expected, resp)
                         IN  /\ ~r.ret
                             /\ ~r.verified
                             /\ ~r.exchanged
                             /\ r.auth_tokens = auth_tokens
                             /\ r.oauth_tokens = oauth_tokens
                             /\ r.users = users
                             /\ r.minted = minted
                  /\ \A uid \in WebUserIds :
                         LET r == AuthCallback(code, state, expected,
                                               <<uid>>, resp)
                         IN  /\ ~r.ret
                             /\ ~r.exchanged
                             /\ r.oauth_tokens = oauth_tokens
                             /\ r.minted = minted)
    /\ [][last'.op \in {"phone_callback", "auth_callback"}
              /\ last'.phone = PageInvalidState
              => /\ ~last'.ok
                 /\ auth_tokens' = auth_tokens
                 /\ oauth_tokens' = oauth_tokens
                 /\ users' = users
                 /\ minted' = minted
                 /\ consumed' = consumed
         ]_vars

\* C13's case: the phone callback refused a request for its state while the
\* link token it came with was usable, and the token still is.
C13_Witness ==
    /\ last.op = "phone_callback"
    /\ last.phone = PageInvalidState
    /\ ~Unusable(last.tok)
    /\ PeekResult(last.tok) # None

\* C14: whatever the provider answers, one invocation of a provider call
\* runs the call at most twice: once, and once more after a 401.
C14_RetriesAtMostOnce ==
    \A c \in Callers :
        loc[c].op = "service" => loc[c].sel[1].attempts <= 2

\* C15: whatever fails inside get_credentials -- the store while the
\* credential is loaded, the provider's refresh, the store while the
\* refreshed token is written -- no exception reaches the caller, and the
\* call returns None.
C15_FailuresGiveNeedsAuth ==
    \A uid \in WebUserIds : \A resp \in ProviderResponses(minted) :
        \A okG \in DbOutcomes, okW \in DbOutcomes :
            LET r == WebGetCredentials(uid, resp, okG, okW)
            IN  /\ ~r.raised
                /\ ~okG => r.ret = None
                /\ r.refreshed /\ (~resp.ok \/ ~okW) => r.ret = None

\* C16: when the stored credential of a user has expired and it has no
\* refresh token or the provider rejects the refresh, get_credentials
\* returns None and leaves no credential row for the user.
C16_StaleCredentialDeleted ==
    \A uid \in WebUserIds : \A resp \in ProviderResponses(minted) :
        LET row == GetOauthTokens(oauth_tokens, uid)
            r == WebGetCredentials(uid, resp, TRUE, TRUE)
        IN  /\ row # None
            /\ row[1].token_expiry # None
            /\ row[1].token_expiry[1] <= now
            /\ (row[1].refresh_token = None \/ ~resp.ok)
            => /\ r.ret = None
               /\ GetOauthTokens(r.oauth_tokens, uid) = None

\* C17: a get_credentials call, phone or web, issues no link token and
\* sends no message: the link-token table, the uuids drawn and the messages
\* sent are the same after it as before; and of a stored credential row it
\* rewrites at most the access token and the expiry.
C17_GetCredentialFrame ==
    [][last'.op \in {"phone_credentials", "web_credentials"} =>
          /\ auth_tokens' = auth_tokens
          /\ uuids' = uuids
          /\ sent' = sent
          /\ Len(oauth_tokens') = Len(oauth_tokens)
          /\ \A i \in 1..Len(oauth_tokens) :
                [oauth_tokens'[i] EXCEPT
                     !.access_token = oauth_tokens[i].access_token,
                     !.token_expiry = oauth_tokens[i].token_expiry]
                    = oauth_tokens[i]]_vars

\* get_credentials has just refreshed a stored credential (its access token
\* is no longer the one issued with its refresh token) while a link is
\* outstanding.
C17_Witness ==
    /\ last.op = "web_credentials"
    /\ last.ok
    /\ \E i \in 1..Len(oauth_tokens) :
          /\ oauth_tokens[i].user_id = last.uid
          /\ oauth_tokens[i].refresh_token # None
          /\ oauth_tokens[i].refresh_token[1] # oauth_tokens[i].access_token
    /\ \E row \in auth_tokens : ~row.used

\* C18: a peek (check_auth_token) changes nothing that is stored, the used
\* flag included; a peek of an unused token before its expiry returns the
\* token's phone number, however many peeks came before it, and a consume
\* made after it, before the expiry, still returns the phone number.
C18_PeekLeavesTokenUsable ==
    [][/\ last'.op = "peek" =>
              /\ UNCHANGED <<auth_tokens, users, oauth_tokens, uuids, minted,
                             consumed, sent, now>>
              /\ (/\ RowOf(last'.tok) # None
                  /\ ~RowOf(last'.tok)[1].used
                  /\ now < RowOf(last'.tok)[1].expires_at)
                 => /\ last'.ok
                    /\ last'.phone = RowOf(last'.tok)[1].phone_number
                    /\ VerifyAuthToken(auth_tokens', last'.tok, now',
                                       TRUE).ret = last'.phone
       /\ (/\ last.op = "peek"
           /\ last.ok
           /\ last'.op \in {"peek", "consume"}
           /\ last'.tok = last.tok
           /\ now < RowOf(last.tok)[1].expires_at)
          => /\ last'.ok
             /\ last'.phone = last.phone
      ]_vars

\* C18's case: a peek of an unused token before its expiry has returned the
\* phone number, and the token is as it was.
C18_Witness ==
    /\ last.op = "peek"
    /\ last.ok
    /\ RowOf(last.tok) # None
    /\ ~RowOf(last.tok)[1].used
    /\ now < RowOf(last.tok)[1].expires_at
    /\ last.phone = RowOf(last.tok)[1].phone_number

\* C19: logout for a user without a credential record returns True and
\* leaves the store as it was; and a second logout for a user leaves the
\* store as the first one left it, and succeeds too.
C19_LogoutIdempotent ==
    /\ [](\A uid \in WebUserIds :
             LET once == DeleteOauthTokens(oauth_tokens, uid, TRUE)
                 twice == DeleteOauthTokens(once.oauth_tokens, uid, TRUE)
             IN  /\ twice.ret
                 /\ twice.oauth_tokens = once.oauth_tokens
                 /\ NoCredentials(uid) =>
                        once.ret /\ once.oauth_tokens = oauth_tokens)
    /\ [][last'.op = "logout" =>
              /\ last'.ok
              /\ UNCHANGED <<users, auth_tokens, uuids, minted, sent>>
              /\ NoCredentials(last'.uid) => oauth_tokens' = oauth_tokens
              /\ (last.op = "logout" /\ last.uid = last'.uid)
                     => oauth_tokens' = oauth_tokens
         ]_vars

\* C19's case: logout has returned for a user who never had a credential
\* record.
C19_Witness ==
    /\ last.op = "logout"
    /\ last.ok
    /\ minted = 0
    /\ last.uid \in WebUserIds
    /\ oauth_tokens = <<>>

\* C20: at every time now >= expires_at, the instant now = expires_at
\* included, a peek and a consume of the token return absent.
C20_UnusableFromExpiryOn ==
    \A tok \in 1..uuids :
        RowOf(tok) # None /\ now >= RowOf(tok)[1].expires_at
            => /\ PeekResult(tok) = None
               /\ VerifyAuthToken(auth_tokens, tok, now, TRUE).ret = None

C22_FailedCompletionKeepsToken ==
    [][(/\ last'.op = "complete"
        /\ ~last'.ok
        /\ RowOf(last'.tok) # None
        /\ ~RowOf(last'.tok)[1].used)
       => \A q \in auth_tokens' : q.auth_token = last'.tok => ~q.used
      ]_vars

\* C23: whenever get_credentials returns a credential it has just refreshed,
\* the store holds that credential's access token and expiry: a failed
\* update_oauth_tokens is not passed over.
C23_RefreshedCredentialIsStored ==
    \A uid \in WebUserIds : \A resp \in ProviderResponses(minted) :
        \A okW \in DbOutcomes :
            LET r == WebGetCredentials(uid, resp, TRUE, okW)
                row == GetOauthTokens(r.oauth_tokens, uid)
            IN  r.refreshed /\ r.ret # None
                    => /\ row # None
                       /\ row[1].access_token = r.ret[1].token
                       /\ row[1].token_expiry = r.ret[1].expiry

\* C24: right after a code exchange has stored a credential with a list of
\* scopes, get_credentials for the user returns a credential with exactly
\* those scopes, and so does the phone variant's conversion of the stored
\* row: the join by spaces and the split lose nothing.
C24_ScopesRoundTrip ==
    last.op = "granted" /\ last.ok =>
        /\ \A resp \in ProviderResponses(minted) :
               LET r == WebGetCredentials(last.uid, resp, TRUE, TRUE)
               IN  /\ r.ret # None
                   /\ r.ret[1].scopes = last.phone
        /\ LET row == GetOauthTokens(oauth_tokens, last.uid)
           IN  /\ row # None
               /\ TokensToCredentials(row[1]).scopes = last.phone
               /\ SplitScope(JoinScopes(last.phone), <<>>) = last.phone

\* C24's case: the exchange granted several scopes that are not the default
\* list.
C24_Witness ==
    /\ last.op = "granted"
    /\ last.ok
    /\ Len(last.phone) > 1
    /\ last.phone # SCOPES
    /\ GetOauthTokens(oauth_tokens, last.uid) # None

\* C25: a sweep (cleanup_expired_auth_tokens) deletes only tokens past their
\* expiry, never one a peek would accept; and, run between the statements
\* of other calls, it leaves the result of every peek and consume as it was:
\* of those called after it, and of the consumes that have read their row.
C25_SweepChangesNoResult ==
    [][last'.op = "sweep" /\ pc' = pc =>
          /\ auth_tokens' \subseteq auth_tokens
          /\ \A r \in auth_tokens \ auth_tokens' :
                /\ r.expires_at < now
                /\ CheckAuthToken(auth_tokens, r.auth_token, now, TRUE) = None
          /\ \A tok \in TokenIds :
                /\ CheckAuthToken(auth_tokens', tok, now', TRUE)
                       = CheckAuthToken(auth_tokens, tok, now, TRUE)
                /\ VerifyAuthToken(auth_tokens', tok, now', TRUE).ret
                       = VerifyAuthToken(auth_tokens, tok, now, TRUE).ret
          /\ \A c \in Callers :
                pc[c] = "verify_selected" =>
                    /\ loc'[c] = loc[c]
                    /\ TokenAccepted(loc'[c].sel, now')
                           = TokenAccepted(loc[c].sel, now)
      ]_vars

\* C25's case: a sweep has deleted the row a running consume had read, while
\* another token is still there.
C25_Witness ==
    /\ last.op = "sweep"
    /\ last.uid > 0
    /\ auth_tokens # {}
    /\ \E c \in Callers :
          /\ pc[c] = "verify_selected"
          /\ loc[c].sel # None
          /\ RowOf(loc[c].tok) = None

\* C26: a complete_oauth_flow(code, T) that succeeds stores the credential
\* just exchanged for the one user whose phone number is the one bound to T,
\* and leaves every other user's credential rows as they were.
C26_CredentialStoredForTokenOwner ==
    [][last'.op = "complete" /\ last'.ok =>
          /\ RowOf(last'.tok) # None
          /\ last'.phone = RowOf(last'.tok)[1].phone_number
          /\ \E uid \in 1..Len(users') :
                /\ users'[uid].phone_number = last'.phone
                /\ \A other \in 1..Len(users') :
                      users'[other].phone_number = last'.phone => other = uid
                /\ LET rows == SelectSeq(oauth_tokens',
                                         LAMBDA r : r.user_id = uid)
                   IN  /\ Len(rows) = 1
                       /\ minted' = minted + 1
                       /\ rows[1].access_token = minted'
                /\ \A other \in 1..Len(users') :
                      other # uid =>
                          SelectSeq(oauth_tokens', LAMBDA r : r.user_id = other)
                            = SelectSeq(oauth_tokens,
                                        LAMBDA r : r.user_id = other)
      ]_vars

\* C26's case: the flow has been completed for a phone number while another
\* user's credential is stored.
C26_Witness ==
    /\ last.op = "complete"
    /\ last.ok
    /\ \E i, j \in 1..Len(oauth_tokens) :
          /\ users[oauth_tokens[i].user_id].phone_number = last.phone
          /\ users[oauth_tokens[j].user_id].phone_number # last.phone

C28_LinkUnlessCredentialValid ==
    \A phone \in Phones :
        LET u == SelectUserByPhone(users, phone)
            row == IF u = None THEN None
                   ELSE GetOauthTokens(oauth_tokens, u[1].id)
            unexpired == /\ row # None
                         /\ \/ row[1].token_expiry = None
                            \/ now < row[1].token_expiry[1]
            r == InitiatePhoneAuth(phone, uuids + 1, TRUE, TRUE, TRUE, TRUE)
        IN  IF unexpired
            THEN TRUE
            ELSE /\ r.issued
                 /\ r.ret
                 /\ CheckAuthToken(r.auth_tokens, uuids + 1, now, TRUE) = phone
                 /\ \E m \in r.sent : m.to = phone /\ m.kind = "auth_link"

\* C29: update_oauth_tokens(user_id, access_token, expiry) sets the access
\* token and the expiry of the user's credential rows and nothing else: their
\* refresh token, scope and user id stay, no row is added or removed, and the
\* rows of other users are as they were (for every token and expiry a refresh
\* may bring now).
C29_RefreshRewritesTokenAndExpiry ==
    \A uid \in 1..Len(users) : \A token \in {minted + 1} :
        \A t \in {now + life : life \in Lifetimes} :
            LET w == UpdateOauthTokens(oauth_tokens, uid, token, <<t>>, TRUE)
                after == w.oauth_tokens
            IN  /\ w.ret
                /\ Len(after) = Len(oauth_tokens)
                /\ \A i \in 1..Len(oauth_tokens) :
                      IF oauth_tokens[i].user_id = uid
                      THEN /\ after[i].access_token = token
                           /\ after[i].token_expiry = <<t>>
                           /\ after[i].refresh_token
                                  = oauth_tokens[i].refresh_token
                           /\ after[i].scope = oauth_tokens[i].scope
                           /\ after[i].user_id = uid
                      ELSE after[i] = oauth_tokens[i]

\* C29's case: two users hold a credential, and one of the credentials has a
\* refresh token and is expired, so that get_credentials refreshes it.
C29_Witness ==
    \E i, j \in 1..Len(oauth_tokens) :
        /\ oauth_tokens[i].user_id # oauth_tokens[j].user_id
        /\ oauth_tokens[i].refresh_token # None
        /\ CredExpired(WebCredentialsOfRow(oauth_tokens[i]), now)
        /\ users[oauth_tokens[i].user_id].phone_number = None

\* C30: /auth/gmail asked with no link token, or with one that is absent
\* from the table, expired or used, answers with an error page: it makes no
\* authorization URL and no state, writes nothing to the session, and leaves
\* the tables, the token's row included, as they were.
C30_BadLinkStartsNothing ==
    /\ [](\A phone_token \in {None} \cup {<<tok>> : tok \in TokenIds} :
             LET r == GmailPhoneAuth(phone_token, TRUE)
             IN  phone_token = None \/ Unusable(phone_token[1]) =>
                     /\ r.status = 400
                     /\ r.page # None
                     /\ r.url = None
                     /\ r.state = None
                     /\ r.session = None
                     /\ r.auth_tokens = auth_tokens
                     /\ r.users = users
                     /\ r.oauth_tokens = oauth_tokens)
    /\ [][last'.op = "phone_auth" /\ Unusable(last'.tok) =>
              /\ ~last'.ok
              /\ last'.phone \in {PageInvalidLink, PageExpiredLink}
              /\ UNCHANGED <<auth_tokens, users, oauth_tokens, uuids, minted,
                             consumed, sent>>
         ]_vars

\* C30's case: /auth/gmail has turned down a link whose token was used, or
\* had expired.
C30_Witness ==
    /\ last.op = "phone_auth"
    /\ ~last.ok
    /\ RowOf(last.tok) # None
    /\ RowOf(last.tok)[1].used \/ RowOf(last.tok)[1].expires_at < now

\* The phone numbers whose user holds a credential row.
PhonesWithCredential ==
    {users[oauth_tokens[i].user_id].phone_number :
         i \in 1..Len(oauth_tokens)}

\* A link token issued for the phone has been consumed.
LinkConsumedFor(phone) ==
    \E r \in auth_tokens :
        /\ r.phone_number = phone
        /\ r.used
        /\ r.auth_token \in consumed

\* C31: in the phone-based flow a credential row exists for the user of a
\* phone number only if a link token issued for that number has been
\* consumed, and get_credentials returns a credential for no other number.
C31_CredentialOnlyAfterConsume ==
    /\ \A phone \in PhonesWithCredential : LinkConsumedFor(phone)
    /\ \A phone \in Phones : \A resp \in ProviderResponses(minted) :
           PhoneGetCredentials(phone, resp, TRUE, TRUE, TRUE).ret # None
               => LinkConsumedFor(phone)
    /\ last.op = "phone_credentials" /\ last.ok => LinkConsumedFor(last.phone)

\* C31's case: get_credentials has returned a credential for one phone
\* number while another number's user, whose link was never consumed, has
\* none.
C31_Witness ==
    /\ last.op = "phone_credentials"
    /\ last.ok
    /\ Len(users) = 2
    /\ Cardinality(PhonesWithCredential) = 1
    /\ \E phone \in Phones : ~LinkConsumedFor(phone)

\* The get_credentials calls that have returned a credential they refreshed.
Refreshers ==
    {c \in Callers : /\ pc[c] = "returned"
                     /\ loc[c].op = "refresh"
                     /\ loc[c].ret # None
                     /\ loc[c].ret[1].token
                            # loc[c].sel[1].row[1].access_token}

\* C32: a stored access token that get_credentials obtained by refreshing a
\* grant is stored with the refresh token of that grant, also when a code
\* exchange for the user was saved while the refresh was in flight.
C32_TokensOfOneGrant ==
    \A c \in Refreshers : \A i \in 1..Len(oauth_tokens) :
        oauth_tokens[i].access_token = loc[c].ret[1].token
            => oauth_tokens[i].refresh_token
                   = loc[c].sel[1].row[1].refresh_token

\* C33: when a logout has removed the user's credential while a
\* get_credentials call was between its read and its refresh, the
\* update_oauth_tokens of that call creates no row: the store holds no
\* credential for the user when the call has returned.
C33_RefreshAfterLogoutStoresNothing ==
    [][\A c \in Callers : \A uid \in WebUserIds :
          (/\ pc[c] = "credentials_read"
           /\ pc'[c] = "returned"
           /\ loc[c].sel[1].user_id = uid
           /\ NoCredentials(uid))
          => /\ NoCredentials(uid)'
             /\ oauth_tokens' = oauth_tokens
      ]_vars

\* C33's case: a get_credentials call has returned a credential it
\* refreshed, after a logout that ran while it was in flight, and the store
\* holds no credential for the user.
C33_Witness ==
    /\ last.op = "web_credentials"
    /\ last.ok
    /\ Refreshers # {}
    /\ NoCredentials(last.uid)

\* C34: a complete_oauth_flow that returns False, whether the link token
\* was refused, the code exchange failed, the user could not be read or
\* save_oauth_tokens failed, leaves the table of credentials as it was: the
\* DELETE of save_oauth_tokens takes effect only together with its INSERT.
C34_FailedCompletionKeepsCredential ==
    [][(last'.op = "complete" /\ ~last'.ok) => oauth_tokens' = oauth_tokens
      ]_vars

\* C34's case: a completion with a link token of a phone whose user has a
\* stored credential got its code exchanged and failed at the store.
C34_Witness ==
    /\ last.op = "complete"
    /\ ~last.ok
    /\ last.phone \in PhonesWithCredential
    /\ minted = 2
    /\ dbFaults

\* The authentication links that have been sent.
LinksSent(out) == {m \in out : m.kind \in {"auth_link", "auth_link_sms"}}

\* C35: every authentication link that has been sent carries a link token
\* saved in the store for the phone it was sent to, and a
\* send_auth_link_whatsapp or send_auth_link_sms whose save_auth_token
\* fails returns False and sends nothing.
C35_SentLinkIsStored ==
    /\ \A m \in LinksSent(sent) :
           \E r \in auth_tokens :
               r.auth_token = m.tok /\ r.phone_number = m.to
    /\ \A okM, configured \in BOOLEAN :
           LET w == SendAuthLinkWhatsapp(P1, uuids + 1, FALSE, okM)
               m == SendAuthLinkSms(P1, uuids + 1, configured, FALSE, okM)
           IN  /\ ~w.ret /\ w.sent = sent /\ w.auth_tokens = auth_tokens
               /\ ~m.ret /\ m.sent = sent /\ m.auth_tokens = auth_tokens

\* C35's case: a link has been sent, and the send after it issued no link
\* token and returned False while the store was failing.
C35_Witness ==
    /\ LinksSent(sent) # {}
    /\ last.op \in {"initiate", "sms_link"}
    /\ ~last.ok
    /\ last.tok = Bogus
    /\ dbFaults

\* C36: when a provider call made after authenticate(phone_number=p) got a
\* 401, the authenticate made before the retry reads the credential of the
\* user of p.
C36_ReauthenticatesSamePhone ==
    \A c \in Callers :
        (/\ loc[c].op = "phone_service_retry"
         /\ loc[c].sel[1].call[1].phone_number # None)
        => /\ loc[c].sel[1].looked # None
           /\ SelectUserByPhone(users, loc[c].sel[1].call[1].phone_number)
                  = <<users[loc[c].sel[1].looked[1]]>>

\* C37: for every phone string no user row holds, get_or_create_user_by_phone
\* raises nothing and returns a user whose phone_number is that string.
C37_NewPhoneGetsUser ==
    \A phone \in PhoneStrings :
        SelectUserByPhone(users, phone) = None
        => LET r == GetOrCreateUserByPhone(users, phone, TRUE)
           IN  /\ ~r.raised
               /\ r.user[1].phone_number = phone

\* C38: gmail_phone_callback verifies (consumes) the link token only in a
\* request that has a code, a link token in its session and a state equal to
\* the session's; a callback without a code leaves the table of link tokens
\* as it was, so that a link token that was usable before it is still
\* accepted by a completion after it; and a callback that rendered the
\* no-code page marked no token used.
C38_ConsumesOnlyAfterChecks ==
    /\ [](\A code \in Codes, state \in States, expected \in ExpectedStates,
             phone_token \in {None} \cup {<<tok>> : tok \in LinkIds},
             resp \in ProviderResponses(minted) :
              LET r == GmailPhoneCallback(code, state, phone_token, expected,
                                          resp)
              IN  /\ (r.verified \/ r.auth_tokens # auth_tokens)
                         => /\ code # None
                            /\ phone_token # None
                            /\ state = expected
                  /\ (code = None /\ phone_token # None)
                         => VerifyAuthToken(r.auth_tokens, phone_token[1],
                                            now, TRUE).ret
                                = PeekResult(phone_token[1]))
    /\ [][(last'.op = "phone_callback" /\ last'.phone = PageNoCode)
              => /\ auth_tokens' = auth_tokens
                 /\ consumed' = consumed
         ]_vars

\* C38's case: the phone callback got a request without a code whose
\* session held a usable link token, and the token is usable still.
C38_Witness ==
    /\ last.op = "phone_callback"
    /\ last.phone = PageNoCode
    /\ ~Unusable(last.tok)
    /\ PeekResult(last.tok) # None
====
